---- MODULE Spec2Model ----
(***************************************************************************)
(* Geofence locations of the HRD application: the hosted database tables   *)
(* geofence_locations and employee_location_assignments, the LocationsPage *)
(* orchestrator (list fetch, create, update, delete), the create/edit      *)
(* dialog with its employee multi-select, and the employee-side assignment *)
(* dialog.  Every backend call is one step: the database applies the       *)
(* request and the awaiting handler runs up to its next await.             *)
(***************************************************************************)
EXTENDS Integers, FiniteSets, Sequences, TLC

(***************************** bounds **************************************)
\* location ids (uuids) the database ever hands out
MaxLocs == 1
\* handleSubmitLocation calls in flight at once
MaxSaves == 2
\* fetchLocations calls in flight at once
MaxFetches == 1

\* the ids of rows: those handed out, and one more for a seeded table
LocIds == 1..(MaxLocs + 1)
\* characters of a search query typed into the map's search bar
MaxQuery == 3
\* locations handed to the map view
MaxList == 2
SaveSlots == 1..MaxSaves
FetchSlots == 1..MaxFetches
\* rows of the employees table (the code never writes it)
Employees == {"E1", "E2"}

(************************** values *****************************************)
\* a JavaScript number: NaN, or a finite value (whole degrees / metres)
Num(n) == [nan |-> FALSE, v |-> n]
NaN == [nan |-> TRUE, v |-> 0]

Row(n, a, lat, lng, r) ==
  [name |-> n, address |-> a, latitude |-> lat, longitude |-> lng, radius |-> r]

\* the scenario row of the specification
HQ == Row("HQ", "1 Main St", Num(-6), Num(106), Num(100))
\* a second valid row, on the edges of the accepted ranges
Office == Row("Main Office", "12 Office Park", Num(90), Num(-180), Num(1))

\* what a user may have typed into the five fields when submitting
FormInputs ==
  { Office,
    [Office EXCEPT !.latitude = Num(91)],
    [Office EXCEPT !.longitude = NaN],
    [Office EXCEPT !.radius = Num(0)],
    [Office EXCEPT !.radius = Num(-1)] }

\* useAuth().user when nobody is signed in
NoUser == "null"
\* the account the visitor owns
Users == {"U1"}

\* the route table of AppRoutes, and one path it does not name
PublicPaths == {"/login", "/register"}
ProtectedPaths == {"/", "/employees", "/shifts", "/leaves", "/reports",
                   "/settings", "/freelance", "/locations"}
Paths == PublicPaths \cup ProtectedPaths \cup {"/unknown"}

\* the four documents of the registration form, in the order signUp
\* uploads them
DocTypes == <<"selfie", "ktp", "kk", "cv">>
DocTypeSet == {DocTypes[i] : i \in 1..Len(DocTypes)}

\* a File: the extension of its name and its content; NoFile is an empty
\* FileList
File(ext, body) == [ext |-> ext, body |-> body]
NoFile == File("", "")

(************************** the database ***********************************)
\* employee_location_assignments as a bag of (employee_id, location_id) rows
NoAssignments == [pr \in Employees \X LocIds |-> 0]

\* a delete that removes no row
DeleteNothing(asg, id) == asg

\* .from("employee_location_assignments").delete().eq("location_id", id)
DeleteByLocation(asg, id) ==
  [pr \in Employees \X LocIds |-> IF pr[2] = id THEN 0 ELSE asg[pr]]

\* .from("employee_location_assignments").delete().eq("employee_id", e)
DeleteByEmployee(asg, e) ==
  [pr \in Employees \X LocIds |-> IF pr[1] = e THEN 0 ELSE asg[pr]]

\* a table without the UNIQUE constraint
NeverUniqueViolation(asg, batch) == FALSE

\* UNIQUE(employee_id, location_id): does the batch collide with a stored row
UniqueViolation(asg, batch) == \E pr \in batch : asg[pr] > 0

\* FOREIGN KEY (location_id) REFERENCES geofence_locations(id)
ForeignKeyViolation(tbl, batch) == \E pr \in batch : pr[2] \notin DOMAIN tbl

\* .insert(assignments): one statement, so the batch is stored whole or not
\* at all; error is "" on success
InsertAssignments(tbl, asg, batch) ==
  IF ForeignKeyViolation(tbl, batch)
    THEN [error |-> "foreign_key", asg |-> asg]
    ELSE IF UniqueViolation(asg, batch)
      THEN [error |-> "unique", asg |-> asg]
      ELSE [error |-> "",
            asg |-> [pr \in Employees \X LocIds |->
                       IF pr \in batch THEN asg[pr] + 1 ELSE asg[pr]]]

\* a foreign key without ON DELETE CASCADE semantics
CascadeNothing(asg, id) == asg

\* ON DELETE CASCADE of the location_id foreign key
CascadeDelete(asg, id) == DeleteByLocation(asg, id)

\* .from("geofence_locations").delete().eq("id", id)
DeleteLocationRow(tbl, id) == [l \in DOMAIN tbl \ {id} |-> tbl[l]]

\* .from("geofence_locations").update(data).eq("id", id): no row, no change
UpdateLocationRow(tbl, id, data) ==
  IF id \in DOMAIN tbl THEN [tbl EXCEPT ![id] = data] ELSE tbl

\* .from("geofence_locations").insert(data) under a fresh uuid
InsertLocationRow(tbl, id, data) ==
  [l \in DOMAIN tbl \cup {id} |-> IF l = id THEN data ELSE tbl[l]]

\* the rows of one location / one employee, as the ids a select returns
EmployeesOf(asg, id) == {e \in Employees : asg[<<e, id>>] > 0}
LocationsOf(asg, e) == {l \in LocIds : asg[<<e, l>>] > 0}


(************************** formSchema *************************************)
\* z.number(): a number, and never NaN
IsNumber(x) == ~x.nan

\* z.string().min(1, ...)
NonEmpty(s) == s # ""

\* .refine((val) => val >= -90 && val <= 90)
LatitudeOk(x) == IsNumber(x) /\ x.v >= -90 /\ x.v <= 90

\* .refine((val) => val >= -180 && val <= 180)
LongitudeOk(x) == IsNumber(x) /\ x.v >= -180 /\ x.v <= 180

\* a refinement that lets 0 through
RadiusNotNegative(x) == IsNumber(x) /\ x.v >= 0

\* .refine((val) => val > 0)
RadiusOk(x) == IsNumber(x) /\ x.v > 0

\* formState.errors after the resolver has run on the field values f
SchemaErrors(f) ==
  {k \in {"name"} : ~NonEmpty(f.name)} \cup
  {k \in {"address"} : ~NonEmpty(f.address)} \cup
  {k \in {"latitude"} : ~LatitudeOk(f.latitude)} \cup
  {k \in {"longitude"} : ~LongitudeOk(f.longitude)} \cup
  {k \in {"radius"} : ~RadiusOk(f.radius)}

SchemaValid(f) == SchemaErrors(f) = {}

\* the five location fields of a form value / a list entry
Fields(f) == Row(f.name, f.address, f.latitude, f.longitude, f.radius)

\* useForm defaultValues with no location, and form.reset for a new location
BlankForm ==
  [name |-> "", address |-> "", latitude |-> Num(0), longitude |-> Num(0),
   radius |-> Num(100), assignedEmployees |-> {}]

\* form.reset({...location fields, assignedEmployees: selectedEmployees})
LocationForm(row, sel) ==
  [name |-> row.name, address |-> row.address, latitude |-> row.latitude,
   longitude |-> row.longitude, radius |-> row.radius,
   assignedEmployees |-> sel]

\* useState initial value of settings/GeofenceLocationDialog (Jakarta)
DefaultFormData == Row("", "", Num(-6), Num(107), Num(100))

(************************** state ******************************************)
VARIABLES
  geofence_locations,             \* table: id -> row, for the stored ids
  employee_location_assignments,  \* table: (employee, location) -> rows
  nextId,                         \* the next uuid the database generates
  locations,                      \* LocationsPage: the loaded list
  isLoading,                      \* LocationsPage
  selectedLocation,               \* LocationsPage: <<>> or <<entry>>
  isDialogOpen,                   \* LocationsPage
  form,                           \* dialog: react-hook-form field values
  selectedEmployees,              \* dialog: useState
  isSubmitting,                   \* dialog: form.formState.isSubmitting
  isSubmitted,                    \* dialog: form.formState.isSubmitted
  sideLoads,                      \* dialog: fetchAssignedEmployees in flight
  toggled,                        \* employees toggled since the dialog opened
  formData,                       \* settings/GeofenceLocationDialog: useState
  saves,                          \* handleSubmitLocation calls, by slot
  lastSave,                       \* the call that returned last, as it ended
  fetches,                        \* fetchLocations calls, by slot
  deletes,                        \* handleDeleteLocation requests in flight
  confirmAnswer,                  \* what confirm() answered to the handler
  empSave,                        \* EmployeeLocationAssignmentDialog.handleSave
  path,                           \* router: the current location
  authLoading,                    \* useAuth().isLoading
  user,                           \* useAuth().user
  session,                        \* the session the backend client persists
  signInCall,                     \* signIn in flight
  lastRedirect,                   \* the path ProtectedRoute last sent to /login
  identities,                     \* auth.users
  profiles,                       \* table profiles: id -> row
  bucket,                         \* storage bucket user-documents
  signUpCall,                     \* signUp in flight
  registerForm,                   \* RegisterForm: isLoading, error, success
  navTimer,                       \* RegisterForm: setTimeout pending
  mapLocations,                   \* GeofenceMapView: the locations prop
  searchQuery,                    \* GeofenceMapView: useState
  filteredLocations               \* GeofenceMapView: useState

routeVars == <<path, authLoading, user, session, signInCall, lastRedirect>>
signUpVars == <<identities, profiles, bucket, signUpCall, registerForm, navTimer>>
mapVars == <<mapLocations, searchQuery, filteredLocations>>
appVars == <<routeVars, signUpVars, mapVars>>
deleteVars == <<deletes, confirmAnswer>>
dbVars == <<geofence_locations, employee_location_assignments, nextId>>
pageVars == <<locations, isLoading, selectedLocation, isDialogOpen>>
dialogState == <<form, selectedEmployees, isSubmitting, isSubmitted, sideLoads>>
dialogVars == <<form, selectedEmployees, isSubmitting, isSubmitted, sideLoads,
                toggled>>
vars == <<geofence_locations, employee_location_assignments, nextId,
          locations, isLoading, selectedLocation, isDialogOpen,
          form, selectedEmployees, isSubmitting, isSubmitted, sideLoads,
          toggled, formData, saves, lastSave, fetches, deletes, confirmAnswer,
          empSave, appVars>>

NoRows == [l \in {} |-> HQ]

IdleSave ==
  [pc |-> "idle", kind |-> "none", id |-> 0, data |-> HQ,
   assignedEmployees |-> {}, peers |-> {}, toggled |-> {}, overlapped |-> FALSE,
   repeat |-> FALSE]

\* how a call ended: pc is "ok" or "failed", error the reason of a failure
NoSave ==
  [pc |-> "none", kind |-> "none", id |-> 0, assignedEmployees |-> {},
   peers |-> {}, repeat |-> FALSE, error |-> ""]

Ended(rec, pc, id, why) ==
  [pc |-> pc, kind |-> rec.kind, id |-> id,
   assignedEmployees |-> rec.assignedEmployees, peers |-> rec.peers,
   repeat |-> rec.repeat, error |-> why]

\* failed: the locations whose assignments query failed in the slot's last call
IdleFetch == [pc |-> "idle", data |-> NoRows, pending |-> {}, failed |-> {}]

IdleEmpSave == [pc |-> "idle", empId |-> "E1", selectedLocations |-> {}]

\* a handleSubmitLocation call that has not reached its try block's end
InFlight(p) == saves[p].pc # "idle"

\* a signed-in user has the app open at p
SignedInAt(p) ==
  /\ path = p
  /\ authLoading = FALSE
  /\ user = "U1"
  /\ session = TRUE
  /\ signInCall = "idle"
  /\ lastRedirect = "none"

\* a { data, error } pair: the user in data, or NoUser; the error, or "none"
Answer(data, error) == [data |-> data, error |-> error]

\* a signUp call: metadata tells whether the caller passed any (RegisterForm
\* does), auth is what supabase.auth.signUp answered, urls the four
\* url variables (<<>> is null), uploading the uploads in flight, started the
\* uploads begun, in order; result is what the call returned
IdleSignUp ==
  [pc |-> "idle", files |-> [t \in DocTypeSet |-> NoFile],
   urls |-> [t \in DocTypeSet |-> <<>>], uploading |-> {}, started |-> <<>>,
   auth |-> Answer(NoUser, "none"), profileError |-> FALSE,
   result |-> Answer(NoUser, "none"), metadata |-> TRUE]

BlankRegisterForm == [isLoading |-> FALSE, error |-> "none", success |-> FALSE]

\* RegisterForm shows its useState initial values; ids are the accounts
\* that exist
RegistrationIdle(ids) ==
  /\ identities = ids
  /\ profiles = [u \in {} |-> 0]
  /\ bucket = {}
  /\ signUpCall = IdleSignUp
  /\ registerForm = BlankRegisterForm
  /\ navTimer = FALSE

\* the map view is not shown
MapEmpty ==
  /\ mapLocations = <<>>
  /\ searchQuery = <<>>
  /\ filteredLocations = <<>>

\* LocationsPage and its dialogs hold their useState initial values, and no
\* request is in flight
UseStateInitial ==
  /\ locations = NoRows
  /\ isLoading = TRUE
  /\ selectedLocation = <<>>
  /\ isDialogOpen = FALSE
  /\ form = BlankForm
  /\ selectedEmployees = {}
  /\ isSubmitting = FALSE
  /\ isSubmitted = FALSE
  /\ sideLoads = {}
  /\ toggled = {}
  /\ formData = DefaultFormData
  /\ saves = [p \in SaveSlots |-> IdleSave]
  /\ lastSave = NoSave
  /\ deletes = {}
  /\ confirmAnswer = "none"
  /\ empSave = IdleEmpSave

\* the page has just mounted: useState initial values, and the mount effect
\* has called fetchLocations
Mounted ==
  /\ SignedInAt("/locations")
  /\ RegistrationIdle(Users)
  /\ MapEmpty
  /\ UseStateInitial
  /\ fetches = [f \in FetchSlots |->
                  IF f = 1 THEN [IdleFetch EXCEPT !.pc = "locations"]
                  ELSE IdleFetch]

\* the database holds no location yet
EmptyDatabase ==
  /\ geofence_locations = NoRows
  /\ employee_location_assignments = NoAssignments
  /\ nextId = 1

\* the database holds the scenario location with any assignment set
ScenarioDatabase ==
  /\ geofence_locations = [l \in {1} |-> HQ]
  /\ \E S \in SUBSET Employees :
       employee_location_assignments =
         [pr \in Employees \X LocIds |->
            IF pr[2] = 1 /\ pr[1] \in S THEN 1 ELSE 0]
  /\ nextId = 2

\* the database holds two locations, each with any assignment set
TwoLocationDatabase ==
  /\ geofence_locations = [l \in {1, 2} |-> IF l = 1 THEN HQ ELSE Office]
  /\ \E S \in SUBSET (Employees \X {1, 2}) :
       employee_location_assignments =
         [pr \in Employees \X LocIds |-> IF pr \in S THEN 1 ELSE 0]
  /\ nextId = 3

Init == Mounted /\ (EmptyDatabase \/ ScenarioDatabase)

(************************** helpers ****************************************)
MinOf(S) == CHOOSE x \in S : \A y \in S : x <= y

FreeSaves == {p \in SaveSlots : ~InFlight(p)}
FreeFetches == {f \in DOMAIN fetches : fetches[f].pc = "idle"}

\* fetchLocations(), up to its first await: setIsLoading(true), query sent
fetchLocations(fs) ==
  [fs EXCEPT ![MinOf(FreeFetches)] = [IdleFetch EXCEPT !.pc = "locations"]]

\* formattedData.address || location?.address || ""
AddressOr(a, sel) ==
  IF a # "" THEN a ELSE IF sel # <<>> THEN sel[1].row.address ELSE ""

\* GeofenceLocationDialog.handleSubmit: the data handed to onSubmit
FormattedData(f, sel) ==
  [name |-> f.name, address |-> AddressOr(f.address, sel),
   latitude |-> f.latitude, longitude |-> f.longitude, radius |-> f.radius,
   assignedEmployees |-> f.assignedEmployees]

\* handleSubmitLocation: const { assignedEmployees, ...locationData } and the
\* address fallback of both branches
DataWithTimestamp(fd, sel) ==
  Row(fd.name, AddressOr(fd.address, sel), fd.latitude, fd.longitude, fd.radius)

\* the assignment rows one save inserts
Assignments(emps, id) == {<<e, id>> : e \in emps}

\* an insert of the selection with no delete before it
InsertOnly(tbl, asg, id, emps) ==
  IF emps # {} THEN InsertAssignments(tbl, asg, Assignments(emps, id))
  ELSE [error |-> "", asg |-> asg]

\* the assignment part of an update run alone: delete the rows of the
\* location, then insert the selection if it is not empty
ReplaceAssignments(tbl, asg, id, emps) ==
  LET deleted == DeleteByLocation(asg, id) IN
  IF emps # {} THEN InsertAssignments(tbl, deleted, Assignments(emps, id))
  ELSE [error |-> "", asg |-> deleted]

\* handleSubmitLocation(formData) up to its first await, as rendered with the
\* current selectedLocation
StartSave(fd) ==
  LET p == MinOf(FreeSaves)
      editing == selectedLocation # <<>>
      id == IF editing THEN selectedLocation[1].id ELSE 0
      rec == [pc |-> IF editing THEN "update" ELSE "insertLocation",
              kind |-> IF editing THEN "update" ELSE "create",
              id |-> id,
              data |-> DataWithTimestamp(fd, selectedLocation),
              assignedEmployees |-> fd.assignedEmployees,
              peers |-> {k \in {"loc"} : \E q \in SaveSlots : InFlight(q)} \cup
                        {k \in {"emp"} : empSave.pc # "idle"},
              toggled |-> IF editing THEN {} ELSE toggled,
              overlapped |-> FALSE,
              repeat |-> /\ editing
                         /\ lastSave.pc = "ok" /\ lastSave.kind = "update"
                         /\ lastSave.id = id /\ lastSave.peers = {}
                         /\ lastSave.assignedEmployees = fd.assignedEmployees]
  IN /\ saves' = [q \in SaveSlots |->
                    IF q = p THEN rec
                    ELSE IF InFlight(q)
                      THEN [saves[q] EXCEPT !.peers = @ \cup {"loc"}]
                      ELSE saves[q]]
     /\ lastSave' = IF \E q \in SaveSlots : InFlight(q) THEN lastSave ELSE NoSave

(************************** LocationsPage **********************************)
\* the dialog's effects on open with a location: the form is reset to the
\* location and the stale selectedEmployees, and fetchAssignedEmployees starts
DialogOpensForEdit(entry) ==
  /\ form' = LocationForm(entry.row, selectedEmployees)
  /\ isSubmitted' = FALSE
  /\ sideLoads' = sideLoads \cup {entry.id}
  /\ toggled' = {}
  /\ UNCHANGED <<selectedEmployees, isSubmitting>>

\* the dialog's effects on open without a location
DialogOpensForCreate ==
  /\ selectedEmployees' = {}
  /\ form' = BlankForm
  /\ isSubmitted' = FALSE
  /\ toggled' = {}
  /\ UNCHANGED <<sideLoads, isSubmitting>>

UiIdle == ~isDialogOpen /\ ~isSubmitting

\* handleEditLocation(location), from a row of the table
EditFromTable(l) ==
  /\ UiIdle /\ ~isLoading /\ l \in DOMAIN locations
  /\ selectedLocation' = <<[id |-> l, row |-> locations[l].row]>>
  /\ isDialogOpen' = TRUE
  /\ DialogOpensForEdit(selectedLocation'[1])
  /\ UNCHANGED <<dbVars, locations, isLoading, formData, saves, lastSave, fetches,
                 deleteVars, empSave, appVars>>

\* handleEditLocation(selectedLocation), from the Selected Location panel
EditSelected ==
  /\ UiIdle /\ selectedLocation # <<>>
  /\ isDialogOpen' = TRUE
  /\ DialogOpensForEdit(selectedLocation[1])
  /\ UNCHANGED <<dbVars, locations, isLoading, selectedLocation, formData,
                 saves, lastSave, fetches, deleteVars, empSave, appVars>>

\* onLocationSelect of the map view: setSelectedLocation
SelectOnMap(l) ==
  /\ UiIdle /\ l \in DOMAIN locations
  /\ selectedLocation' = <<[id |-> l, row |-> locations[l].row]>>
  /\ UNCHANGED <<dbVars, locations, isLoading, isDialogOpen, dialogVars,
                 formData, saves, lastSave, fetches, deleteVars, empSave, appVars>>

handleAddLocation ==
  /\ UiIdle
  /\ selectedLocation' = <<>>
  /\ isDialogOpen' = TRUE
  /\ DialogOpensForCreate
  /\ UNCHANGED <<dbVars, locations, isLoading, formData, saves, lastSave, fetches,
                 deleteVars, empSave, appVars>>

\* a close that also drops the saves in flight
CloseDialogAborts ==
  /\ isDialogOpen /\ ~isSubmitting
  /\ isDialogOpen' = FALSE
  /\ toggled' = {}
  /\ saves' = [p \in SaveSlots |-> IdleSave]
  /\ UNCHANGED <<dbVars, locations, isLoading, selectedLocation, dialogState,
                 formData, lastSave, fetches, deleteVars, empSave, appVars>>

\* Cancel, Escape or a click outside: onOpenChange(false)
CloseDialog ==
  /\ isDialogOpen /\ ~isSubmitting
  /\ isDialogOpen' = FALSE
  /\ toggled' = {}
  /\ UNCHANGED <<dbVars, locations, isLoading, selectedLocation, dialogState,
                 formData, saves, lastSave, fetches, deleteVars, empSave, appVars>>


(************************** the dialog *************************************)
\* the user edits the five fields (field.onChange with the parsed numbers)
TypeFields(input) ==
  /\ isDialogOpen /\ ~isSubmitting
  /\ form' = LocationForm(input, form.assignedEmployees)
  /\ UNCHANGED <<dbVars, pageVars, selectedEmployees, isSubmitting, isSubmitted,
                 sideLoads, toggled, formData, saves, lastSave, fetches, deleteVars, empSave, appVars>>

\* currentValues.includes(id) ? currentValues.filter(...) : [...currentValues, id]
Toggle(values, e) == IF e \in values THEN values \ {e} ELSE values \cup {e}

\* a reset effect that leaves the form of a new location as it is
ResetKeepsCreateForm(open, sel, emps, current) ==
  IF open /\ sel # <<>> THEN LocationForm(sel[1].row, emps) ELSE current

\* the form reset effect, run because selectedEmployees (or open) changed
ResetEffect(open, sel, emps, current) ==
  IF open /\ sel # <<>> THEN LocationForm(sel[1].row, emps)
  ELSE IF open THEN BlankForm
  ELSE current

\* CommandItem.onSelect: field.onChange(newValues), setSelectedEmployees(
\* newValues), and the reset effect that the new selectedEmployees triggers
ToggleEmployee(e) ==
  LET newValues == Toggle(form.assignedEmployees, e) IN
  /\ isDialogOpen /\ ~isSubmitting
  /\ selectedEmployees' = newValues
  /\ form' = ResetEffect(isDialogOpen, selectedLocation, newValues,
                         [form EXCEPT !.assignedEmployees = newValues])
  /\ isSubmitted' = FALSE
  /\ toggled' = Toggle(toggled, e)
  /\ UNCHANGED <<dbVars, pageVars, isSubmitting, sideLoads, formData, saves, lastSave,
                 fetches, deleteVars, empSave, appVars>>

\* fetchAssignedEmployees returns ids (the rows of the location, or [] from
\* the catch block): setSelectedEmployees, form.setValue, then the reset effect
SideLoadSettles(ids) ==
  /\ selectedEmployees' = ids
  /\ form' = ResetEffect(isDialogOpen, selectedLocation, ids,
                         [form EXCEPT !.assignedEmployees = ids])
  /\ isSubmitted' = (isSubmitted /\ ~isDialogOpen)
  /\ UNCHANGED <<dbVars, pageVars, isSubmitting, toggled, formData, saves, lastSave,
                 fetches, deleteVars, empSave, appVars>>

SideLoadOk(l) ==
  /\ l \in sideLoads /\ ~isSubmitting
  /\ sideLoads' = sideLoads \ {l}
  /\ SideLoadSettles(EmployeesOf(employee_location_assignments, l))

SideLoadError(l) ==
  /\ l \in sideLoads /\ ~isSubmitting
  /\ sideLoads' = sideLoads \ {l}
  /\ SideLoadSettles({})

\* the submit event: form.handleSubmit sets isSubmitting and runs the resolver.
\* The event is taken for every value the fields can hold: the browser's own
\* min="1" check of the radius input is not relied on.
SubmitClick ==
  /\ isDialogOpen /\ ~isSubmitting /\ FreeSaves # {}
  /\ isSubmitting' = TRUE
  /\ UNCHANGED <<dbVars, pageVars, form, selectedEmployees, isSubmitted,
                 sideLoads, toggled, formData, saves, lastSave, fetches, deleteVars, empSave, appVars>>

\* the resolver rejects: errors are shown, handleSubmit is not called
SubmitInvalid ==
  /\ isSubmitting /\ ~SchemaValid(form)
  /\ isSubmitting' = FALSE
  /\ isSubmitted' = TRUE
  /\ UNCHANGED <<dbVars, pageVars, form, selectedEmployees, sideLoads, toggled,
                 formData, saves, lastSave, fetches, deleteVars, empSave, appVars>>

\* the resolver accepts: handleSubmit calls onSubmit(formattedData) and
\* returns at once, so handleSubmit's promise settles and isSubmitting drops
SubmitValid ==
  /\ isSubmitting /\ SchemaValid(form)
  /\ StartSave(FormattedData(form, selectedLocation))
  /\ isSubmitting' = FALSE
  /\ isSubmitted' = TRUE
  /\ UNCHANGED <<dbVars, pageVars, form, selectedEmployees, sideLoads, toggled,
                 formData, fetches, deleteVars, empSave, appVars>>

(************************** handleSubmitLocation ***************************)
\* call p has returned; the calls still in flight have seen one return
Returned(p) ==
  [q \in SaveSlots |->
     IF q = p THEN IdleSave
     ELSE IF InFlight(q) THEN [saves[q] EXCEPT !.overlapped = TRUE]
     ELSE saves[q]]

\* a catch block that also closes the dialog
FailsAndCloses(p, why) ==
  /\ saves' = Returned(p)
  /\ lastSave' = Ended(saves[p], "failed", saves[p].id, why)
  /\ isDialogOpen' = FALSE
  /\ UNCHANGED <<locations, isLoading, selectedLocation, fetches, toggled>>

\* the catch block: console.error and a toast
Fails(p, why) ==
  /\ saves' = Returned(p)
  /\ lastSave' = Ended(saves[p], "failed", saves[p].id, why)
  /\ UNCHANGED <<pageVars, fetches, toggled>>

\* an end of the try block that leaves the dialog open
SucceedsStaysOpen(p, id) ==
  /\ FreeFetches # {}
  /\ saves' = Returned(p)
  /\ lastSave' = Ended(saves[p], "ok", id, "")
  /\ isLoading' = TRUE
  /\ fetches' = fetchLocations(fetches)
  /\ UNCHANGED <<locations, selectedLocation, isDialogOpen, toggled>>

\* the end of the try block: toast, setIsDialogOpen(false), fetchLocations()
Succeeds(p, id) ==
  /\ FreeFetches # {}
  /\ saves' = Returned(p)
  /\ lastSave' = Ended(saves[p], "ok", id, "")
  /\ isDialogOpen' = FALSE
  /\ toggled' = {}
  /\ isLoading' = TRUE
  /\ fetches' = fetchLocations(fetches)
  /\ UNCHANGED <<locations, selectedLocation>>

\* a backend call of the save fails in transit and changes nothing
SaveNetworkError(p) ==
  /\ InFlight(p)
  /\ Fails(p, "network")
  /\ UNCHANGED <<dbVars, dialogState, formData, deleteVars, empSave, appVars>>

\* .update(dataWithTimestamp).eq("id", selectedLocation.id).select()
SaveUpdateLocation(p) ==
  /\ saves[p].pc = "update"
  /\ geofence_locations' =
       UpdateLocationRow(geofence_locations, saves[p].id, saves[p].data)
  /\ saves' = [saves EXCEPT ![p].pc = "delete"]
  /\ UNCHANGED lastSave
  /\ UNCHANGED <<employee_location_assignments, nextId, pageVars, dialogVars,
                 formData, fetches, deleteVars, empSave, appVars>>

\* .delete().eq("location_id", selectedLocation.id), then the insert only
\* if assignedEmployees.length > 0
SaveDeleteAssignments(p) ==
  /\ saves[p].pc = "delete"
  /\ employee_location_assignments' =
       DeleteByLocation(employee_location_assignments, saves[p].id)
  /\ IF saves[p].assignedEmployees # {}
       THEN /\ saves' = [saves EXCEPT ![p].pc = "insert"]
            /\ UNCHANGED <<pageVars, fetches, lastSave, toggled>>
       ELSE Succeeds(p, saves[p].id)
  /\ UNCHANGED <<geofence_locations, nextId, dialogState, formData, deleteVars,
                 empSave, appVars>>

\* .insert(newLocationData).select().single()
SaveInsertLocation(p) ==
  /\ saves[p].pc = "insertLocation"
  /\ nextId <= MaxLocs
  /\ geofence_locations' =
       InsertLocationRow(geofence_locations, nextId, saves[p].data)
  /\ nextId' = nextId + 1
  /\ IF saves[p].assignedEmployees # {}
       THEN /\ saves' = [saves EXCEPT ![p].pc = "insert", ![p].id = nextId]
            /\ UNCHANGED <<pageVars, fetches, lastSave, toggled>>
       ELSE Succeeds(p, nextId)
  /\ UNCHANGED <<employee_location_assignments, dialogState, formData, deleteVars,
                 empSave, appVars>>

\* .from("employee_location_assignments").insert(assignments)
SaveInsertAssignments(p) ==
  LET r == InsertAssignments(geofence_locations, employee_location_assignments,
                             Assignments(saves[p].assignedEmployees, saves[p].id))
  IN
  /\ saves[p].pc = "insert"
  /\ employee_location_assignments' = r.asg
  /\ IF r.error = "" THEN Succeeds(p, saves[p].id) ELSE Fails(p, r.error)
  /\ UNCHANGED <<geofence_locations, nextId, dialogState, formData, deleteVars,
                 empSave, appVars>>

(************************** fetchLocations *********************************)
\* a list entry before its assignments are attached
Entry(row) == [row |-> row, assigned_employees |-> {}, hasAssigned |-> FALSE]

\* setLocations(...) and the finally block
FetchDone(f, list, failed) ==
  /\ locations' = list
  /\ isLoading' = FALSE
  /\ fetches' = [fetches EXCEPT ![f] = [IdleFetch EXCEPT !.failed = failed]]

\* .from("geofence_locations").select("*") answers; Promise.all of no
\* queries resolves at once
FetchLocationsOk(f) ==
  LET data == [l \in DOMAIN geofence_locations |-> Entry(geofence_locations[l])]
  IN
  /\ fetches[f].pc = "locations"
  /\ IF DOMAIN data = {}
       THEN FetchDone(f, data, {})
       ELSE /\ fetches' = [fetches EXCEPT ![f] =
                 [pc |-> "assignments", data |-> data, pending |-> DOMAIN data,
                  failed |-> {}]]
            /\ UNCHANGED <<locations, isLoading>>
  /\ UNCHANGED <<dbVars, selectedLocation, isDialogOpen, dialogVars, formData,
                 saves, lastSave, deleteVars, empSave, appVars>>

\* if (locationsError) throw: the catch block toasts, finally clears isLoading
FetchLocationsError(f) ==
  /\ fetches[f].pc = "locations"
  /\ isLoading' = FALSE
  /\ fetches' = [fetches EXCEPT ![f] = IdleFetch]
  /\ UNCHANGED <<dbVars, locations, selectedLocation, isDialogOpen, dialogVars,
                 formData, saves, lastSave, deleteVars, empSave, appVars>>

\* one per-location assignments query settles with entry e for location l
FetchAssignmentsSettle(f, l, e, failed) ==
  LET data == [fetches[f].data EXCEPT ![l] = e]
      pending == fetches[f].pending \ {l}
  IN
  /\ fetches[f].pc = "assignments" /\ l \in fetches[f].pending
  /\ IF pending = {}
       THEN FetchDone(f, data, failed)
       ELSE /\ fetches' = [fetches EXCEPT ![f].data = data,
                                          ![f].pending = pending,
                                          ![f].failed = failed]
            /\ UNCHANGED <<locations, isLoading>>
  /\ UNCHANGED <<dbVars, selectedLocation, isDialogOpen, dialogVars, formData,
                 saves, lastSave, deleteVars, empSave, appVars>>

\* { ...location, assigned_employees: assignmentsData.map(a => a.employee_id) }
FetchAssignmentsOk(f, l) ==
  /\ fetches[f].pc = "assignments" /\ l \in fetches[f].pending
  /\ FetchAssignmentsSettle(f, l,
       [fetches[f].data[l] EXCEPT
          !.assigned_employees = EmployeesOf(employee_location_assignments, l),
          !.hasAssigned = TRUE],
       fetches[f].failed)

\* a failed assignments query that ends the load like a failed locations query
AssignmentsErrorAborts(f, l) ==
  /\ fetches[f].pc = "assignments" /\ l \in fetches[f].pending
  /\ isLoading' = FALSE
  /\ fetches' = [fetches EXCEPT ![f] = [IdleFetch EXCEPT !.failed = {l}]]
  /\ UNCHANGED <<dbVars, locations, selectedLocation, isDialogOpen, dialogVars,
                 formData, saves, lastSave, deleteVars, empSave, appVars>>

\* if (assignmentsError) return location
FetchAssignmentsError(f, l) ==
  /\ fetches[f].pc = "assignments" /\ l \in fetches[f].pending
  /\ FetchAssignmentsSettle(f, l, fetches[f].data[l], fetches[f].failed \cup {l})


(************************** handleDeleteLocation ***************************)
\* the Delete button of a table row or of the Selected Location panel is
\* there to click for location l
DeleteButton(l) ==
  /\ UiIdle /\ l \notin deletes
  /\ \/ ~isLoading /\ l \in DOMAIN locations
     \/ selectedLocation # <<>> /\ selectedLocation[1].id = l

\* a click answered with Cancel that sends the request all the same
DeclinedButSent(l) ==
  /\ DeleteButton(l)
  /\ confirmAnswer' = "declined"
  /\ deletes' = deletes \cup {l}
  /\ UNCHANGED <<dbVars, pageVars, dialogVars, formData, saves, lastSave, fetches,
                 empSave, appVars>>

\* if (!confirm(...)) return: the click is answered with Cancel
DeleteDeclined(l) ==
  /\ DeleteButton(l)
  /\ confirmAnswer' = "declined"
  /\ UNCHANGED <<dbVars, pageVars, dialogVars, formData, saves, lastSave, fetches,
                 deletes, empSave, appVars>>

\* the click is answered with OK: the delete request is sent
DeleteConfirmed(l) ==
  /\ DeleteButton(l)
  /\ confirmAnswer' = "accepted"
  /\ deletes' = deletes \cup {l}
  /\ UNCHANGED <<dbVars, pageVars, dialogVars, formData, saves, lastSave, fetches,
                 empSave, appVars>>

\* .from("geofence_locations").delete().eq("id", locationId) succeeds; the
\* assignment rows go with it; toast and fetchLocations()
DeleteOk(l) ==
  /\ l \in deletes /\ FreeFetches # {}
  /\ deletes' = deletes \ {l}
  /\ confirmAnswer' = "none"
  /\ geofence_locations' = DeleteLocationRow(geofence_locations, l)
  /\ employee_location_assignments' =
       CascadeDelete(employee_location_assignments, l)
  /\ isLoading' = TRUE
  /\ fetches' = fetchLocations(fetches)
  /\ UNCHANGED <<nextId, locations, selectedLocation, isDialogOpen, dialogVars,
                 formData, saves, lastSave, empSave, appVars>>

\* if (error) throw error: the catch block toasts
DeleteError(l) ==
  /\ l \in deletes
  /\ deletes' = deletes \ {l}
  /\ confirmAnswer' = "none"
  /\ UNCHANGED <<dbVars, pageVars, dialogVars, formData, saves, lastSave, fetches,
                 empSave, appVars>>

(************************** EmployeeLocationAssignmentDialog ***************)
\* handleSave with an employee id and the toggled selectedLocations, taken
\* from the locations the dialog has loaded: setIsLoading(true) disables the
\* Save button until the finally block
EmpSaveStart(e, sel) ==
  /\ empSave.pc = "idle"
  /\ sel \subseteq 1..(nextId - 1)
  /\ UNCHANGED appVars
  /\ empSave' = [pc |-> "delete", empId |-> e, selectedLocations |-> sel]
  /\ saves' = [q \in SaveSlots |->
                 IF InFlight(q) THEN [saves[q] EXCEPT !.peers = @ \cup {"emp"}]
                 ELSE saves[q]]
  /\ UNCHANGED lastSave
  /\ UNCHANGED <<dbVars, pageVars, dialogVars, formData, fetches, deleteVars>>

\* .delete().eq("employee_id", empId)
EmpSaveDelete ==
  /\ empSave.pc = "delete"
  /\ employee_location_assignments' =
       DeleteByEmployee(employee_location_assignments, empSave.empId)
  /\ UNCHANGED appVars
  /\ empSave' = IF empSave.selectedLocations # {}
                  THEN [empSave EXCEPT !.pc = "insert"]
                  ELSE IdleEmpSave
  /\ UNCHANGED <<geofence_locations, nextId, pageVars, dialogVars, formData,
                 saves, lastSave, fetches, deleteVars>>

\* .insert(assignments): stored, or rejected into the catch block
EmpSaveInsert ==
  /\ empSave.pc = "insert"
  /\ employee_location_assignments' =
       InsertAssignments(geofence_locations, employee_location_assignments,
                         {<<empSave.empId, l>> : l \in empSave.selectedLocations}).asg
  /\ UNCHANGED appVars
  /\ empSave' = IdleEmpSave
  /\ UNCHANGED <<geofence_locations, nextId, pageVars, dialogVars, formData,
                 saves, lastSave, fetches, deleteVars>>

\* a backend call of handleSave fails in transit
EmpSaveNetworkError ==
  /\ empSave.pc # "idle"
  /\ UNCHANGED appVars
  /\ empSave' = IdleEmpSave
  /\ UNCHANGED <<dbVars, pageVars, dialogVars, formData, saves, lastSave, fetches,
                 deleteVars>>

(************************** components/settings/GeofenceLocationDialog *****)
\* the page's handlers with this dialog rendered: it takes no location prop
\* and keeps its formData while it is closed
PlainAddLocation ==
  /\ ~isDialogOpen
  /\ selectedLocation' = <<>>
  /\ isDialogOpen' = TRUE
  /\ UNCHANGED <<dbVars, locations, isLoading, dialogVars, formData, saves,
                 lastSave, fetches, deleteVars, empSave, appVars>>

PlainEditFromTable(l) ==
  /\ ~isDialogOpen /\ ~isLoading /\ l \in DOMAIN locations
  /\ selectedLocation' = <<[id |-> l, row |-> locations[l].row]>>
  /\ isDialogOpen' = TRUE
  /\ UNCHANGED <<dbVars, locations, isLoading, dialogVars, formData, saves,
                 lastSave, fetches, deleteVars, empSave, appVars>>

PlainCloseDialog ==
  /\ isDialogOpen
  /\ isDialogOpen' = FALSE
  /\ UNCHANGED <<dbVars, locations, isLoading, selectedLocation, dialogVars,
                 formData, saves, lastSave, fetches, deleteVars, empSave, appVars>>

\* parseFloat of the text of a number input ("" when the field is emptied)
parseFloat(text) ==
  CASE text = "91" -> Num(91)
    [] text = "-181" -> Num(-181)
    [] OTHER -> NaN

\* the change events the user produces: a field name and the input's text
ChangeEvents ==
  {<<"name", "Main Office">>, <<"address", "12 Office Park">>,
   <<"latitude", "91">>, <<"latitude", "">>, <<"longitude", "-181">>}

\* the upper end of the Slider (max={500})
SliderValues == {500}

\* a click on the dialog's map
MapClicks == {<<-6, 106>>}

\* handleChange: numbers parsed for latitude and longitude, text kept otherwise
handleChange(name, value) ==
  /\ isDialogOpen
  /\ formData' = [formData EXCEPT ![name] =
                    IF name \in {"radius", "latitude", "longitude"}
                      THEN parseFloat(value) ELSE value]
  /\ UNCHANGED <<dbVars, pageVars, dialogVars, saves, lastSave, fetches,
                 deleteVars, empSave, appVars>>

handleRadiusChange(value) ==
  /\ isDialogOpen
  /\ formData' = [formData EXCEPT !.radius = Num(value)]
  /\ UNCHANGED <<dbVars, pageVars, dialogVars, saves, lastSave, fetches,
                 deleteVars, empSave, appVars>>

handleMapClick(lat, lng) ==
  /\ isDialogOpen
  /\ formData' = [formData EXCEPT !.latitude = Num(lat), !.longitude = Num(lng)]
  /\ UNCHANGED <<dbVars, pageVars, dialogVars, saves, lastSave, fetches,
                 deleteVars, empSave, appVars>>

\* the browser's check of the `required` inputs before the submit event
RequiredFilled(fd) ==
  /\ fd.name # "" /\ fd.address # ""
  /\ ~fd.latitude.nan /\ ~fd.longitude.nan

\* handleSubmit: onSubmit(formData), which carries no assignedEmployees
PlainSubmit ==
  /\ isDialogOpen /\ FreeSaves # {}
  /\ RequiredFilled(formData)
  /\ StartSave([name |-> formData.name, address |-> formData.address,
                latitude |-> formData.latitude,
                longitude |-> formData.longitude, radius |-> formData.radius,
                assignedEmployees |-> {}])
  /\ UNCHANGED <<dbVars, pageVars, dialogVars, formData, fetches, deleteVars,
                 empSave, appVars>>

(************************** App: routes and the auth guard ******************)
\* what a route renders: a page, a text, or <Navigate to=... replace />
Page(name) == [kind |-> "page", arg |-> name]
Text(t) == [kind |-> "text", arg |-> t]
Navigate(to) == [kind |-> "navigate", arg |-> to]

\* a guard that lets every visitor through once loading has finished
ProtectedRouteAnyVisitor(children, u, loading) ==
  IF loading THEN Text("Loading authentication...") ELSE children

ProtectedRoute(children, u, loading) ==
  IF loading THEN Text("Loading authentication...")
  ELSE IF u = NoUser THEN Navigate("/login")
  ELSE children

\* the page each protected route wraps
PageOf(p) ==
  CASE p = "/" -> "Home"
    [] p = "/employees" -> "EmployeesPage"
    [] p = "/shifts" -> "ShiftsPage"
    [] p = "/leaves" -> "LeavesPage"
    [] p = "/reports" -> "ReportsPage"
    [] p = "/settings" -> "SettingsPage"
    [] p = "/freelance" -> "FreelancePage"
    [] p = "/locations" -> "LocationsPage"

\* <Routes>: the element of the route that matches p
AppRoutes(p, u, loading) ==
  CASE p = "/login" -> Page("LoginPage")
    [] p = "/register" -> Page("RegisterForm")
    [] p \in ProtectedPaths -> ProtectedRoute(Page(PageOf(p)), u, loading)
    [] OTHER -> Navigate("/")

\* rendering at p: every <Navigate> replaces the location before the next
\* event is handled; from is the path the guard sent to /login
RECURSIVE Follow(_, _, _, _)
Follow(p, u, loading, from) ==
  LET el == AppRoutes(p, u, loading)
  IN IF el.kind = "navigate"
       THEN Follow(el.arg, u, loading, IF el.arg = "/login" THEN p ELSE from)
       ELSE [path |-> p, from |-> from]

Render(p, u, loading) ==
  LET r == Follow(p, u, loading, lastRedirect)
  IN /\ path' = r.path
     /\ lastRedirect' = r.from

\* what the visitor sees
Rendered == AppRoutes(path, user, authLoading)

pageState == <<dbVars, pageVars, dialogVars, formData, saves, lastSave, fetches,
               deleteVars, empSave>>

\* a link, navigate() or the history buttons: client-side navigation
NavigateTo(p) ==
  /\ Render(p, user, authLoading)
  /\ UNCHANGED <<authLoading, user, session, signInCall>>
  /\ UNCHANGED <<pageState, signUpVars, mapVars>>

\* the address bar or a reload: the app starts again, AuthProvider mounts
\* with isLoading true and no user
LoadApp(p) ==
  /\ authLoading' = TRUE
  /\ user' = NoUser
  /\ signInCall' = "idle"
  /\ Render(p, NoUser, TRUE)
  /\ UNCHANGED session
  /\ UNCHANGED <<pageState, signUpVars, mapVars>>

\* AuthProvider has read the persisted session
AuthResolved ==
  /\ authLoading
  /\ authLoading' = FALSE
  /\ user' = IF session THEN "U1" ELSE NoUser
  /\ Render(path, user', FALSE)
  /\ UNCHANGED <<session, signInCall>>
  /\ UNCHANGED <<pageState, signUpVars, mapVars>>

\* LoginPage submits credentials: signIn awaits signInWithPassword
SignInSubmit ==
  /\ path = "/login"
  /\ signInCall = "idle"
  /\ signInCall' = "pending"
  /\ UNCHANGED <<path, authLoading, user, session, lastRedirect>>
  /\ UNCHANGED <<pageState, signUpVars, mapVars>>

\* signInWithPassword returns a session: the auth context publishes its user
SignInOk ==
  /\ signInCall = "pending"
  /\ identities # {}
  /\ signInCall' = "idle"
  /\ session' = TRUE
  /\ user' = "U1"
  /\ Render(path, "U1", authLoading)
  /\ UNCHANGED authLoading
  /\ UNCHANGED <<pageState, signUpVars, mapVars>>

\* signInWithPassword returns an error, or throws into the catch block
SignInError ==
  /\ signInCall = "pending"
  /\ signInCall' = "idle"
  /\ UNCHANGED <<path, authLoading, user, session, lastRedirect>>
  /\ UNCHANGED <<pageState, signUpVars, mapVars>>

\* signOut: the session ends and the auth context clears its user
SignOut ==
  /\ user # NoUser
  /\ session' = FALSE
  /\ user' = NoUser
  /\ Render(path, NoUser, authLoading)
  /\ UNCHANGED <<authLoading, signInCall>>
  /\ UNCHANGED <<pageState, signUpVars, mapVars>>

(************************** GeofenceMapView: the search filter **************)
\* strings are sequences of characters
Chars == {"o", "O", "f", " "}
RECURSIVE StringsUpTo(_)
StringsUpTo(n) ==
  IF n = 0 THEN {<<>>}
  ELSE LET shorter == StringsUpTo(n - 1)
       IN shorter \cup {Append(t, c) : t \in shorter, c \in Chars}

Queries == StringsUpTo(MaxQuery)

\* names and addresses a location may carry; <<>> is a missing one
Texts == {<<>>, <<"O", "f">>, <<"f", " ", "o">>}
MapLocation == [name : Texts, address : Texts]
RECURSIVE ListsUpTo(_)
ListsUpTo(n) ==
  IF n = 0 THEN {<<>>}
  ELSE LET shorter == ListsUpTo(n - 1)
       IN shorter \cup {Append(ls, l) : ls \in shorter, l \in MapLocation}

Lists == ListsUpTo(MaxList)

\* a lower-casing that changes no character
KeepCase(t) == t

\* String.prototype.toLowerCase
toLowerCase(t) ==
  [i \in 1..Len(t) |-> CASE t[i] = "O" -> "o" [] OTHER -> t[i]]

\* String.prototype.trim
RECURSIVE trim(_)
trim(t) ==
  IF t = <<>> THEN t
  ELSE IF Head(t) = " " THEN trim(Tail(t))
  ELSE IF t[Len(t)] = " " THEN trim(SubSeq(t, 1, Len(t) - 1))
  ELSE t

\* String.prototype.includes
includes(t, q) ==
  \E i \in 1..(Len(t) - Len(q) + 1) : SubSeq(t, i, i + Len(q) - 1) = q

\* the filter callback: a missing name or address never matches
Matches(location, query) ==
  LET nameMatch == IF location.name # <<>>
                     THEN includes(toLowerCase(location.name), query)
                     ELSE FALSE
      addressMatch == IF location.address # <<>>
                        THEN includes(toLowerCase(location.address), query)
                        ELSE FALSE
  IN nameMatch \/ addressMatch

\* the two effects that run when searchQuery or locations changed: the first
\* sets the whole list, the second then sets the filtered one
FilterEffect(ls, q) ==
  IF trim(q) = <<>>
    THEN ls
    ELSE LET query == trim(toLowerCase(q))
             Keep(location) == Matches(location, query)
         IN SelectSeq(ls, Keep)

\* the user edits the search bar
SetSearchQuery(q) ==
  /\ searchQuery' = q
  /\ filteredLocations' = FilterEffect(mapLocations, q)
  /\ UNCHANGED mapLocations
  /\ UNCHANGED <<pageState, routeVars, signUpVars>>

\* the parent renders the map view with another locations list
LocationsChange(ls) ==
  /\ mapLocations' = ls
  /\ filteredLocations' = FilterEffect(ls, searchQuery)
  /\ UNCHANGED searchQuery
  /\ UNCHANGED <<pageState, routeVars, signUpVars>>

(************************** signUp and RegisterForm *************************)
\* the files a visitor may pick: two selfies that differ in extension, a
\* third with the first one's extension and other content
Jpg == File("jpg", "a")
Png == File("png", "b")
Jpg2 == File("jpg", "c")
FileChoices ==
  {fs \in [DocTypeSet -> {NoFile, Jpg, Png, Jpg2}] :
     \A t \in DocTypeSet \ {"selfie"} : fs[t] \in {NoFile, Jpg}}

\* `documents/${userId}/${fileType}.${fileExt}`
filePath(userId, fileType, file) == <<"documents", userId, fileType, file.ext>>

\* storage .upload(filePath, file, { upsert: true }): the object at filePath
\* is created or overwritten
StorageUpload(b, p, file) ==
  {o \in b : o.path # p} \cup {[path |-> p, body |-> file.body]}

\* the row-level-security policies of profiles: one FOR SELECT, one FOR
\* UPDATE, both USING (auth.uid() = id)
ProfilesPolicies == {[cmd |-> "SELECT"], [cmd |-> "UPDATE"]}

\* with row level security enabled a command passes only under a policy for it
RlsAllows(cmd, uid, id) ==
  \E pol \in ProfilesPolicies : pol.cmd \in {cmd, "ALL"} /\ uid = id

\* auth.uid() of the requests the browser sends
AuthUid == IF session THEN user ELSE NoUser

\* .from("profiles").upsert(row): an INSERT ... ON CONFLICT DO UPDATE, which
\* must pass the INSERT policies, and the UPDATE ones when the row exists
UpsertAllowed(id) ==
  /\ RlsAllows("INSERT", AuthUid, id)
  /\ id \in DOMAIN profiles => RlsAllows("UPDATE", AuthUid, id)

\* the types still to upload: a non-empty file list, not started yet
Remaining(c) ==
  {i \in 1..Len(DocTypes) :
     /\ c.files[DocTypes[i]] # NoFile
     /\ \A k \in 1..Len(c.started) : c.started[k] # DocTypes[i]}

\* every remaining upload started at once
ContinueInParallel(c) ==
  LET Left(t) == \E i \in Remaining(c) : DocTypes[i] = t
  IN IF Remaining(c) # {}
       THEN [c EXCEPT !.pc = "uploads",
                      !.uploading = {DocTypes[i] : i \in Remaining(c)},
                      !.started = @ \o SelectSeq(DocTypes, Left)]
       ELSE IF c.uploading # {} THEN c ELSE [c EXCEPT !.pc = "upsert"]

\* signUp runs on to its next await: the upload of the next type that has a
\* file, in the order selfie, ktp, kk, cv, or else the profiles upsert
Continue(c) ==
  IF Remaining(c) # {}
    THEN LET t == DocTypes[MinOf(Remaining(c))]
         IN [c EXCEPT !.pc = "uploads", !.uploading = {t},
                      !.started = Append(@, t)]
    ELSE [c EXCEPT !.pc = "upsert"]

\* a return value that carries the profile error
ReturnProfileError(c) ==
  IF c.profileError THEN Answer(c.auth.data, "profile") ELSE c.auth

\* return { data, error }
SignUpReturn(c) == c.auth

\* onSubmit after the await: the error, or the success message and the
\* timer that navigates to /login; finally clears isLoading
AfterSignUp(result) ==
  /\ registerForm' =
       IF result.error # "none"
         THEN [isLoading |-> FALSE, error |-> result.error, success |-> FALSE]
         ELSE [isLoading |-> FALSE, error |-> "none",
               success |-> result.data # NoUser]
  /\ navTimer' = IF result.error = "none" /\ result.data # NoUser
                   THEN TRUE ELSE navTimer

\* signUp returns: to onSubmit of RegisterForm, the caller that passes
\* metadata, or to a caller that passed none
SignUpReturns(c) ==
  LET result == SignUpReturn(c)
  IN /\ signUpCall' = [c EXCEPT !.pc = "idle", !.uploading = {},
                                 !.result = result]
     /\ IF c.metadata THEN AfterSignUp(result)
        ELSE UNCHANGED <<registerForm, navTimer>>

\* a guard that asks for a user only
UserOnly(c) == c.auth.data # NoUser

\* if (data?.user && metadata)
UserAndMetadata(c) == c.auth.data # NoUser /\ c.metadata

\* the visitor opens /register: RegisterForm mounts
OpenRegister ==
  /\ path # "/register"
  /\ signUpCall.pc = "idle"
  /\ registerForm' = BlankRegisterForm
  /\ Render("/register", user, authLoading)
  /\ UNCHANGED <<authLoading, user, session, signInCall>>
  /\ UNCHANGED <<identities, profiles, bucket, signUpCall, navTimer>>
  /\ UNCHANGED <<pageState, mapVars>>

\* onSubmit with a valid form and the picked files: signUp awaits
\* supabase.auth.signUp
RegisterSubmit(fs) ==
  /\ path = "/register"
  /\ ~registerForm.isLoading /\ ~registerForm.success
  /\ registerForm' = [isLoading |-> TRUE, error |-> "none", success |-> FALSE]
  /\ signUpCall' = [IdleSignUp EXCEPT !.pc = "auth", !.files = fs]
  /\ UNCHANGED <<identities, profiles, bucket, navTimer>>
  /\ UNCHANGED <<pageState, routeVars, mapVars>>

\* signUp(email, password, undefined, files): a call without metadata, which
\* the signature allows
SignUpWithoutMetadata(fs) ==
  /\ signUpCall.pc = "idle" /\ ~registerForm.isLoading
  /\ signUpCall' = [IdleSignUp EXCEPT !.pc = "auth", !.files = fs,
                                      !.metadata = FALSE]
  /\ UNCHANGED <<identities, profiles, bucket, registerForm, navTimer>>
  /\ UNCHANGED <<pageState, routeVars, mapVars>>

\* the identity layer answers with a user: a new one, or the one that
\* registered before and has not confirmed
AuthSignUpOk(u) ==
  LET c == [signUpCall EXCEPT !.auth = Answer(u, "none")]
  IN
  /\ signUpCall.pc = "auth"
  /\ identities' = identities \cup {u}
  /\ IF UserAndMetadata(c)
       THEN /\ signUpCall' = Continue(c)
            /\ UNCHANGED <<registerForm, navTimer>>
       ELSE SignUpReturns(c)
  /\ UNCHANGED <<profiles, bucket>>
  /\ UNCHANGED <<pageState, routeVars, mapVars>>

\* the identity layer answers with an error and no user, or the call throws
\* into the catch block
AuthSignUpError ==
  /\ signUpCall.pc = "auth"
  /\ SignUpReturns([signUpCall EXCEPT !.auth = Answer(NoUser, "auth")])
  /\ UNCHANGED <<identities, profiles, bucket>>
  /\ UNCHANGED <<pageState, routeVars, mapVars>>

\* uploadFile: the upload of type t is stored and its public url returned
UploadOk(t) ==
  LET p == filePath(signUpCall.auth.data, t, signUpCall.files[t])
  IN
  /\ signUpCall.pc = "uploads" /\ t \in signUpCall.uploading
  /\ bucket' = StorageUpload(bucket, p, signUpCall.files[t])
  /\ signUpCall' = Continue([signUpCall EXCEPT !.uploading = @ \ {t},
                                               !.urls[t] = <<p>>])
  /\ UNCHANGED <<identities, profiles, registerForm, navTimer>>
  /\ UNCHANGED <<pageState, routeVars, mapVars>>

\* uploadFile: if (uploadError) return null
UploadError(t) ==
  /\ signUpCall.pc = "uploads" /\ t \in signUpCall.uploading
  /\ signUpCall' = Continue([signUpCall EXCEPT !.uploading = @ \ {t}])
  /\ UNCHANGED <<identities, profiles, bucket, registerForm, navTimer>>
  /\ UNCHANGED <<pageState, routeVars, mapVars>>

\* the profiles upsert answers: the row is written, or profileError is
\* logged; either way signUp returns
ProfilesUpsert ==
  LET id == signUpCall.auth.data
  IN
  /\ signUpCall.pc = "upsert"
  /\ IF UpsertAllowed(id)
       THEN /\ profiles' = [u \in DOMAIN profiles \cup {id} |->
                              IF u = id THEN signUpCall.urls ELSE profiles[u]]
            /\ SignUpReturns(signUpCall)
       ELSE /\ UNCHANGED profiles
            /\ SignUpReturns([signUpCall EXCEPT !.profileError = TRUE])
  /\ UNCHANGED <<identities, bucket>>
  /\ UNCHANGED <<pageState, routeVars, mapVars>>

\* setTimeout(() => navigate("/login"), 3000) fires
NavTimerFires ==
  /\ navTimer
  /\ navTimer' = FALSE
  /\ Render("/login", user, authLoading)
  /\ UNCHANGED <<authLoading, user, session, signInCall>>
  /\ UNCHANGED <<identities, profiles, bucket, signUpCall, registerForm>>
  /\ UNCHANGED <<pageState, mapVars>>

(************************** specification **********************************)
PageNext ==
  \/ \E l \in LocIds : EditFromTable(l)
  \/ EditSelected
  \/ \E l \in LocIds : SelectOnMap(l)
  \/ handleAddLocation
  \/ CloseDialog

DialogNext ==
  \/ \E input \in FormInputs : TypeFields(input)
  \/ \E e \in Employees : ToggleEmployee(e)
  \/ \E l \in LocIds : SideLoadOk(l)
  \/ \E l \in LocIds : SideLoadError(l)
  \/ SubmitClick
  \/ SubmitInvalid
  \/ SubmitValid

SaveNext ==
  \/ \E p \in SaveSlots : SaveNetworkError(p)
  \/ \E p \in SaveSlots : SaveUpdateLocation(p)
  \/ \E p \in SaveSlots : SaveDeleteAssignments(p)
  \/ \E p \in SaveSlots : SaveInsertLocation(p)
  \/ \E p \in SaveSlots : SaveInsertAssignments(p)

FetchNext ==
  \/ \E f \in FetchSlots : FetchLocationsOk(f)
  \/ \E f \in FetchSlots : FetchLocationsError(f)
  \/ \E f \in FetchSlots, l \in LocIds : FetchAssignmentsOk(f, l)
  \/ \E f \in FetchSlots, l \in LocIds : FetchAssignmentsError(f, l)

DeleteNext ==
  \/ \E l \in LocIds : DeleteDeclined(l)
  \/ \E l \in LocIds : DeleteConfirmed(l)
  \/ \E l \in LocIds : DeleteOk(l)
  \/ \E l \in LocIds : DeleteError(l)

EmpNext ==
  \/ \E e \in Employees, sel \in SUBSET LocIds : EmpSaveStart(e, sel)
  \/ EmpSaveDelete
  \/ EmpSaveInsert
  \/ EmpSaveNetworkError

Next == PageNext \/ DialogNext \/ SaveNext \/ FetchNext \/ DeleteNext \/ EmpNext

\* the whole system
Spec == Init /\ [][Next]_vars

\* editing the assignments of the stored location, with overlapping saves
ReplaceNext ==
  \/ \E l \in LocIds : EditFromTable(l)
  \/ CloseDialog
  \/ \E e \in Employees : ToggleEmployee(e)
  \/ \E l \in LocIds : SideLoadOk(l)
  \/ SubmitClick
  \/ SubmitValid
  \/ \E p \in SaveSlots : SaveUpdateLocation(p)
  \/ \E p \in SaveSlots : SaveDeleteAssignments(p)
  \/ \E p \in SaveSlots : SaveInsertAssignments(p)
  \/ \E f \in FetchSlots : FetchLocationsOk(f)
  \/ \E f \in FetchSlots, l \in LocIds : FetchAssignmentsOk(f, l)

InitReplace == Mounted /\ ScenarioDatabase

SpecReplace == InitReplace /\ [][ReplaceNext]_vars

\* every writer of the two tables, from an empty database: create, update,
\* delete and employee-side saves, one submission of the dialog at a time
WritersNext ==
  \/ handleAddLocation
  \/ \E l \in LocIds : EditFromTable(l)
  \/ TypeFields(Office)
  \/ \E e \in Employees : ToggleEmployee(e)
  \/ SubmitClick /\ \A p \in SaveSlots : ~InFlight(p)
  \/ SubmitValid
  \/ \E p \in SaveSlots : SaveInsertLocation(p)
  \/ \E p \in SaveSlots : SaveUpdateLocation(p)
  \/ \E p \in SaveSlots : SaveDeleteAssignments(p)
  \/ \E p \in SaveSlots : SaveInsertAssignments(p)
  \/ \E f \in FetchSlots : FetchLocationsOk(f)
  \/ \E f \in FetchSlots, l \in LocIds : FetchAssignmentsOk(f, l)
  \/ \E l \in LocIds : DeleteConfirmed(l)
  \/ \E l \in LocIds : DeleteOk(l)
  \/ \E e \in Employees, sel \in SUBSET LocIds : EmpSaveStart(e, sel)
  \/ EmpSaveDelete
  \/ EmpSaveInsert

InitEmpty == Mounted /\ EmptyDatabase

SpecWriters == InitEmpty /\ [][WritersNext]_vars

\* the schema dialog in both modes with every form input, one submission at
\* a time
FormNext ==
  \/ handleAddLocation
  \/ \E l \in LocIds : EditFromTable(l)
  \/ CloseDialog
  \/ \E input \in FormInputs : TypeFields(input)
  \/ \E e \in Employees : ToggleEmployee(e)
  \/ \E l \in LocIds : SideLoadOk(l)
  \/ SubmitClick /\ \A p \in SaveSlots : ~InFlight(p)
  \/ SubmitInvalid
  \/ SubmitValid
  \/ \E p \in SaveSlots : SaveInsertLocation(p)
  \/ \E p \in SaveSlots : SaveUpdateLocation(p)
  \/ \E p \in SaveSlots : SaveDeleteAssignments(p)
  \/ \E p \in SaveSlots : SaveInsertAssignments(p)
  \/ \E f \in FetchSlots : FetchLocationsOk(f)
  \/ \E f \in FetchSlots, l \in LocIds : FetchAssignmentsOk(f, l)

SpecForm == InitEmpty /\ [][FormNext]_vars

\* saves and list fetches whose backend calls can fail
ErrorsNext ==
  \/ handleAddLocation
  \/ \E l \in LocIds : EditFromTable(l)
  \/ CloseDialog
  \/ TypeFields(Office)
  \/ \E e \in Employees : ToggleEmployee(e)
  \/ SubmitClick /\ \A p \in SaveSlots : ~InFlight(p)
  \/ SubmitValid
  \/ \E p \in SaveSlots : SaveNetworkError(p)
  \/ \E p \in SaveSlots : SaveInsertLocation(p)
  \/ \E p \in SaveSlots : SaveUpdateLocation(p)
  \/ \E p \in SaveSlots : SaveDeleteAssignments(p)
  \/ \E p \in SaveSlots : SaveInsertAssignments(p)
  \/ \E f \in FetchSlots : FetchLocationsOk(f)
  \/ \E f \in FetchSlots : FetchLocationsError(f)
  \/ \E f \in FetchSlots, l \in LocIds : FetchAssignmentsOk(f, l)
  \/ \E f \in FetchSlots, l \in LocIds : FetchAssignmentsError(f, l)

SpecErrors == InitEmpty /\ [][ErrorsNext]_vars

\* the dialog opened from the button, the table and the Selected Location
\* panel, with saves that succeed or fail
LifecycleNext ==
  \/ ErrorsNext
  \/ EditSelected
  \/ \E l \in LocIds : SelectOnMap(l)

SpecLifecycle == InitEmpty /\ [][LifecycleNext]_vars

\* deleting the stored location from the table or the Selected Location
\* panel, with the confirmation answered either way
DeletingNext ==
  \/ handleAddLocation
  \/ \E l \in LocIds : EditFromTable(l)
  \/ CloseDialog
  \/ \E l \in LocIds : SelectOnMap(l)
  \/ \E l \in LocIds : DeleteDeclined(l)
  \/ \E l \in LocIds : DeleteConfirmed(l)
  \/ \E l \in LocIds : DeleteOk(l)
  \/ \E l \in LocIds : DeleteError(l)
  \/ \E f \in FetchSlots : FetchLocationsOk(f)
  \/ \E f \in FetchSlots, l \in LocIds : FetchAssignmentsOk(f, l)

SpecDeleting == InitReplace /\ [][DeletingNext]_vars

\* the page with the dialog of components/settings/GeofenceLocationDialog.tsx
PlainNext ==
  \/ PlainAddLocation
  \/ \E l \in LocIds : PlainEditFromTable(l)
  \/ PlainCloseDialog
  \/ \E c \in ChangeEvents : handleChange(c[1], c[2])
  \/ \E v \in SliderValues : handleRadiusChange(v)
  \/ \E c \in MapClicks : handleMapClick(c[1], c[2])
  \/ PlainSubmit /\ \A p \in SaveSlots : ~InFlight(p)
  \/ \E p \in SaveSlots : SaveInsertLocation(p)
  \/ \E p \in SaveSlots : SaveUpdateLocation(p)
  \/ \E p \in SaveSlots : SaveDeleteAssignments(p)
  \/ \E f \in FetchSlots : FetchLocationsOk(f)
  \/ \E f \in FetchSlots, l \in LocIds : FetchAssignmentsOk(f, l)

SpecPlain == InitEmpty /\ [][PlainNext]_vars


\* the scenario location is edited and saved, one save at a time, every
\* request succeeds, and the dialog may be closed at any moment
NoCancelNext ==
  \/ \E l \in LocIds : EditFromTable(l)
  \/ CloseDialog
  \/ TypeFields(Office)
  \/ \E l \in LocIds : SideLoadOk(l)
  \/ SubmitClick /\ \A p \in SaveSlots : ~InFlight(p)
  \/ SubmitValid
  \/ \E p \in SaveSlots : SaveUpdateLocation(p)
  \/ \E p \in SaveSlots : SaveDeleteAssignments(p)
  \/ \E p \in SaveSlots : SaveInsertAssignments(p)
  \/ \E f \in FetchSlots : FetchLocationsOk(f)
  \/ \E f \in FetchSlots, l \in LocIds : FetchAssignmentsOk(f, l)

\* every request sent is answered
Answered ==
  /\ \A p \in SaveSlots : /\ WF_vars(SaveUpdateLocation(p))
                           /\ WF_vars(SaveDeleteAssignments(p))
                           /\ WF_vars(SaveInsertAssignments(p))
  /\ \A f \in FetchSlots : /\ WF_vars(FetchLocationsOk(f))
                            /\ \A l \in LocIds : WF_vars(FetchAssignmentsOk(f, l))

SpecNoCancel == InitReplace /\ [][NoCancelNext]_vars /\ Answered

\* the employees assigned to the scenario location before any save
InitialEmployees == {"E1"}

\* the database holds the scenario location with E1 assigned to it
OneAssignedDatabase ==
  /\ geofence_locations = [l \in {1} |-> HQ]
  /\ employee_location_assignments =
       [pr \in Employees \X LocIds |->
          IF pr[2] = 1 /\ pr[1] \in InitialEmployees THEN 1 ELSE 0]
  /\ nextId = 2

InitOneAssigned == Mounted /\ OneAssignedDatabase

\* the scenario location is edited and submitted once; the side-load and the
\* requests of the save can fail
SingleSaveNext ==
  \/ \E l \in LocIds : EditFromTable(l)
  \/ TypeFields(Office)
  \/ \E e \in Employees : ToggleEmployee(e)
  \/ \E l \in LocIds : SideLoadOk(l)
  \/ \E l \in LocIds : SideLoadError(l)
  \/ SubmitClick /\ lastSave.pc = "none" /\ \A p \in SaveSlots : ~InFlight(p)
  \/ SubmitValid
  \/ \E p \in SaveSlots : SaveNetworkError(p)
  \/ \E p \in SaveSlots : SaveUpdateLocation(p)
  \/ \E p \in SaveSlots : SaveDeleteAssignments(p)
  \/ \E p \in SaveSlots : SaveInsertAssignments(p)
  \/ \E f \in FetchSlots : FetchLocationsOk(f)
  \/ \E f \in FetchSlots, l \in LocIds : FetchAssignmentsOk(f, l)

SpecSingleSave == InitOneAssigned /\ [][SingleSaveNext]_vars

\* the scenario location is opened for edit and submitted once with no
\* employee ever toggled; the side-load answers, fails or is still pending
UntouchedNext ==
  \/ \E l \in LocIds : EditFromTable(l)
  \/ CloseDialog
  \/ TypeFields(Office)
  \/ \E l \in LocIds : SideLoadOk(l)
  \/ \E l \in LocIds : SideLoadError(l)
  \/ SubmitClick /\ lastSave.pc = "none" /\ \A p \in SaveSlots : ~InFlight(p)
  \/ SubmitValid
  \/ \E p \in SaveSlots : SaveUpdateLocation(p)
  \/ \E p \in SaveSlots : SaveDeleteAssignments(p)
  \/ \E p \in SaveSlots : SaveInsertAssignments(p)
  \/ \E f \in FetchSlots : FetchLocationsOk(f)
  \/ \E f \in FetchSlots, l \in LocIds : FetchAssignmentsOk(f, l)

SpecUntouched == InitOneAssigned /\ [][UntouchedNext]_vars

\* room for one fetchLocations call more than the other scenarios have
OverlapSlots == 1..(MaxFetches + 1)

\* the page has just mounted over the scenario database
InitOverlap ==
  /\ SignedInAt("/locations")
  /\ RegistrationIdle(Users)
  /\ MapEmpty
  /\ UseStateInitial
  /\ fetches = [f \in OverlapSlots |->
                  IF f = 1 THEN [IdleFetch EXCEPT !.pc = "locations"]
                  ELSE IdleFetch]
  /\ ScenarioDatabase

\* the selected location is edited, saved and deleted from the Selected
\* Location panel while refreshes of the list are in flight; every request
\* succeeds and the answers arrive in any order
OverlapNext ==
  \/ \E l \in LocIds : SelectOnMap(l)
  \/ EditSelected
  \/ \E l \in LocIds : SideLoadOk(l)
  \/ SubmitClick /\ \A p \in SaveSlots : ~InFlight(p)
  \/ SubmitValid
  \/ \E p \in SaveSlots : SaveUpdateLocation(p)
  \/ \E p \in SaveSlots : SaveDeleteAssignments(p)
  \/ \E p \in SaveSlots : SaveInsertAssignments(p)
  \/ \E l \in LocIds : DeleteConfirmed(l)
  \/ \E l \in LocIds : DeleteOk(l)
  \/ \E f \in OverlapSlots : FetchLocationsOk(f)
  \/ \E f \in OverlapSlots, l \in LocIds : FetchAssignmentsOk(f, l)

SpecOverlap == InitOverlap /\ [][OverlapNext]_vars

\* two locations, with E1 assigned to the first and E2 to the second
InitialLocations(e) == IF e = "E1" THEN {1} ELSE {2}

AssignedDatabase ==
  /\ geofence_locations = [l \in {1, 2} |-> IF l = 1 THEN HQ ELSE Office]
  /\ employee_location_assignments =
       [pr \in Employees \X LocIds |->
          IF pr[2] \in InitialLocations(pr[1]) THEN 1 ELSE 0]
  /\ nextId = 3

InitAssigned == Mounted /\ AssignedDatabase

\* the employee dialog saves a selection for an employee whose rows are still
\* the initial ones; its requests succeed or fail; the page loads its list
EmployeeSideNext ==
  \/ \E e \in Employees, sel \in SUBSET LocIds :
       /\ LocationsOf(employee_location_assignments, e) = InitialLocations(e)
       /\ EmpSaveStart(e, sel)
  \/ EmpSaveDelete
  \/ EmpSaveInsert
  \/ EmpSaveNetworkError
  \/ \E f \in FetchSlots : FetchLocationsOk(f)
  \/ \E f \in FetchSlots, l \in LocIds : FetchAssignmentsOk(f, l)

SpecEmployeeSide == InitAssigned /\ [][EmployeeSideNext]_vars

\* the page loads a table of two locations; each query answers or fails
ListNext ==
  \/ \E f \in FetchSlots : FetchLocationsOk(f)
  \/ \E f \in FetchSlots : FetchLocationsError(f)
  \/ \E f \in FetchSlots, l \in LocIds : FetchAssignmentsOk(f, l)
  \/ \E f \in FetchSlots, l \in LocIds : FetchAssignmentsError(f, l)

InitList == Mounted /\ TwoLocationDatabase

SpecList == InitList /\ [][ListNext]_vars

\* the map tab: the search bar is edited and the list changes under it
MapNext ==
  \/ \E q \in Queries : SetSearchQuery(q)
  \/ \E ls \in Lists : LocationsChange(ls)

\* the map view has mounted with some list and an empty search bar
InitMap ==
  /\ SignedInAt("/locations")
  /\ RegistrationIdle(Users)
  /\ UseStateInitial
  /\ fetches = [f \in FetchSlots |-> IdleFetch]
  /\ EmptyDatabase
  /\ mapLocations \in Lists
  /\ searchQuery = <<>>
  /\ filteredLocations = mapLocations

SpecMap == InitMap /\ [][MapNext]_vars

\* a visitor registers, and may register again before confirming
SignUpNext ==
  \/ OpenRegister
  \/ \E fs \in FileChoices : RegisterSubmit(fs)
  \/ \E u \in Users : AuthSignUpOk(u)
  \/ AuthSignUpError
  \/ \E t \in DocTypeSet : UploadOk(t)
  \/ \E t \in DocTypeSet : UploadError(t)
  \/ ProfilesUpsert
  \/ NavTimerFires

\* registration, and signUp called without metadata
SignUpApiNext ==
  \/ SignUpNext
  \/ \E fs \in FileChoices : SignUpWithoutMetadata(fs)

\* a visitor without an account or a session has /register open
InitSignUp ==
  /\ path = "/register"
  /\ authLoading = FALSE
  /\ user = NoUser
  /\ session = FALSE
  /\ signInCall = "idle"
  /\ lastRedirect = "none"
  /\ RegistrationIdle({})
  /\ MapEmpty
  /\ UseStateInitial
  /\ fetches = [f \in FetchSlots |-> IdleFetch]
  /\ EmptyDatabase

SpecSignUp == InitSignUp /\ [][SignUpNext]_vars

SpecSignUpApi == InitSignUp /\ [][SignUpApiNext]_vars

\* a visitor without a session opens the app and moves between the routes,
\* signing in and out
RouteNext ==
  \/ \E p \in Paths : NavigateTo(p)
  \/ \E p \in Paths : LoadApp(p)
  \/ AuthResolved
  \/ SignInSubmit
  \/ SignInOk
  \/ SignInError
  \/ SignOut

\* the app has just been opened at /employees by a visitor who has an
\* account and no session; no page is mounted
InitVisitor ==
  /\ path = "/employees"
  /\ authLoading = TRUE
  /\ user = NoUser
  /\ session = FALSE
  /\ signInCall = "idle"
  /\ lastRedirect = "none"
  /\ RegistrationIdle(Users)
  /\ MapEmpty
  /\ UseStateInitial
  /\ fetches = [f \in FetchSlots |-> IdleFetch]
  /\ EmptyDatabase

SpecRoute == InitVisitor /\ [][RouteNext]_vars

(************************** properties *************************************)
\* call p returns in this step / returns from the end of its try block
Returns(p) == InFlight(p) /\ saves'[p].pc = "idle"
ReturnsOk(p) == Returns(p) /\ lastSave'.pc = "ok"

\* the rows of location id are exactly one row per employee of emps
ExactlyRows(asg, id, emps) ==
  \A e \in Employees : asg[<<e, id>>] = IF e \in emps THEN 1 ELSE 0

\* C1: when an update save that ran with no other save in flight returns
\* successfully, the assignment rows of its location are exactly one row per
\* employee of the submitted selection, whatever they were before.
C1_UpdateIsFullReplace ==
  [][\A p \in SaveSlots :
       (ReturnsOk(p) /\ saves[p].kind = "update" /\ saves[p].peers = {})
         => ExactlyRows(employee_location_assignments', saves[p].id,
                        saves[p].assignedEmployees)]_vars

\* an update of location 1 to the selection [E1] has returned successfully,
\* alone, and the rows are those of E1
C1_Witness ==
  /\ lastSave.pc = "ok" /\ lastSave.kind = "update" /\ lastSave.peers = {}
  /\ lastSave.assignedEmployees = {"E1"}
  /\ ExactlyRows(employee_location_assignments, lastSave.id, {"E1"})

\* C2: at every reachable database state, replacing the assignment set of a
\* stored location by a selection twice in succession succeeds both times and
\* leaves the rows the first replacement left, each pair stored once.
C2_ReplaceIdempotent ==
  \A id \in DOMAIN geofence_locations, emps \in SUBSET Employees :
    LET once == ReplaceAssignments(geofence_locations,
                                   employee_location_assignments, id, emps)
        twice == ReplaceAssignments(geofence_locations, once.asg, id, emps)
    IN /\ once.error = "" /\ twice.error = ""
       /\ twice.asg = once.asg
       /\ ExactlyRows(twice.asg, id, emps)

\* the same non-empty selection was saved twice in succession for a location,
\* each save alone, and both returned successfully
C2_Witness ==
  /\ lastSave.pc = "ok" /\ lastSave.repeat /\ lastSave.peers = {}
  /\ lastSave.assignedEmployees # {}
  /\ ExactlyRows(employee_location_assignments, lastSave.id,
                 lastSave.assignedEmployees)

\* C3: in every reachable state, every stored assignment row references a
\* location that is stored in geofence_locations.
C3_NoOrphans ==
  \A pair \in DOMAIN employee_location_assignments :
    employee_location_assignments[pair] > 0
      => pair[2] \in DOMAIN geofence_locations

\* a save stored assignment rows for a location that has since been deleted,
\* and no row is left
C3_Witness ==
  /\ lastSave.pc = "ok" /\ lastSave.assignedEmployees # {}
  /\ lastSave.id \notin DOMAIN geofence_locations
  /\ deletes = {}
  /\ employee_location_assignments = NoAssignments

\* C4: in every reachable state no (employee_id, location_id) pair is stored
\* twice, and a location-side save whose insert is rejected for a duplicate
\* pair leaves the table as it was.
C4_PairsUnique ==
  /\ [](\A pair \in DOMAIN employee_location_assignments :
          employee_location_assignments[pair] <= 1)
  /\ [][\A p \in SaveSlots :
          (Returns(p) /\ lastSave'.error = "unique")
            => employee_location_assignments' = employee_location_assignments]_vars

\* the insert of a location-side save collided with a row an employee-side
\* save had stored in the meantime, and was rejected
C4_Witness ==
  /\ lastSave.pc = "failed" /\ lastSave.error = "unique"
  /\ "emp" \in lastSave.peers
  /\ \E e \in lastSave.assignedEmployees :
       employee_location_assignments[<<e, lastSave.id>>] = 1


\* C5 (as stated): when an update save returns successfully after another
\* update save of the same location returned successfully during its flight
\* (only location saves involved), the rows of the location are the selection
\* of one of the two.
C5_LastWriteWins ==
  [][\A p \in SaveSlots :
       (/\ ReturnsOk(p) /\ saves[p].kind = "update"
        /\ saves[p].overlapped /\ saves[p].peers = {"loc"}
        /\ lastSave.pc = "ok" /\ lastSave.kind = "update"
        /\ lastSave.id = saves[p].id /\ lastSave.peers = {"loc"})
         => \/ ExactlyRows(employee_location_assignments', saves[p].id,
                           saves[p].assignedEmployees)
            \/ ExactlyRows(employee_location_assignments', saves[p].id,
                           lastSave.assignedEmployees)]_vars

\* C6 (as stated): when a create save returns successfully, the assignment
\* rows of the new location are exactly one row per employee the user toggled
\* on in the create dialog.
C6_CreateStoresSelection ==
  [][\A p \in SaveSlots :
       (ReturnsOk(p) /\ saves[p].kind = "create")
         => ExactlyRows(employee_location_assignments', lastSave'.id,
                        saves[p].toggled)]_vars

\* C7 (as stated): every save in flight and every stored location row has a
\* latitude in [-90, 90] and a longitude in [-180, 180].
C7_CoordinatesInRange ==
  /\ \A p \in SaveSlots :
       InFlight(p) => /\ LatitudeOk(saves[p].data.latitude)
                      /\ LongitudeOk(saves[p].data.longitude)
  /\ \A l \in DOMAIN geofence_locations :
       /\ LatitudeOk(geofence_locations[l].latitude)
       /\ LongitudeOk(geofence_locations[l].longitude)

\* C8: a submission of the schema dialog whose radius is not a number above 0
\* starts no save, and no save in flight and no stored location row has a
\* radius that is not above 0.
C8_RadiusPositive ==
  /\ [](/\ \A p \in SaveSlots :
            InFlight(p) => (IsNumber(saves[p].data.radius) /\ saves[p].data.radius.v > 0)
        /\ \A l \in DOMAIN geofence_locations :
            IsNumber(geofence_locations[l].radius) /\ geofence_locations[l].radius.v > 0)
  /\ [][(isSubmitting /\ ~isSubmitting'
           /\ ~(IsNumber(form.radius) /\ form.radius.v > 0))
          => /\ \A p \in SaveSlots : InFlight(p)' => InFlight(p)
             /\ isSubmitted' /\ "radius" \in SchemaErrors(form')]_vars

\* a submission with radius 0 has been rejected with an error on the field
C8_Witness ==
  /\ isDialogOpen /\ isSubmitted /\ ~isSubmitting
  /\ form.radius = Num(0) /\ SchemaErrors(form) = {"radius"}
  /\ \A p \in SaveSlots : ~InFlight(p)

\* C9 (amended): when a backend call of a save fails, or the locations query
\* of a list fetch fails, the dialog is as open as it was and the locations
\* list is the one held before.
C9_ErrorKeepsUi ==
  [][((\E p \in SaveSlots : Returns(p) /\ lastSave'.pc = "failed")
        \/ (\E f \in FetchSlots : FetchLocationsError(f)))
       => (isDialogOpen' = isDialogOpen /\ locations' = locations)]_vars

\* a save failed with the dialog open and a loaded list: both are kept
C9_Witness ==
  /\ lastSave.pc = "failed" /\ isDialogOpen
  /\ DOMAIN locations # {}
  /\ \A p \in SaveSlots : ~InFlight(p)

\* C9 (as stated): also when a per-location assignments query of a list
\* fetch fails, the locations list is the one held before.
C9_AnyErrorKeepsList ==
  [][\A f \in FetchSlots :
       (/\ fetches[f].pc = "assignments" /\ fetches'[f].pc = "idle"
        /\ \E l \in DOMAIN locations' : ~locations'[l].hasAssigned)
         => locations' = locations]_vars

\* C10 (as stated): the submit button is disabled while a save of the dialog
\* is in flight, so at most one save of the dialog is in flight at any time.
C10_OneSaveInFlight ==
  Cardinality({p \in SaveSlots : InFlight(p)}) <= 1

\* C11: the dialog opens either with no selected location and a blank form or
\* with a selected location and that location's fields in the form; a save
\* that returns successfully closes the dialog and starts fetchLocations; a
\* save that fails leaves the dialog as open as it was and starts no fetch.
C11_DialogLifecycle ==
  [][/\ (~isDialogOpen /\ isDialogOpen')
          => \/ selectedLocation' = <<>> /\ form' = BlankForm
             \/ /\ selectedLocation' # <<>>
                /\ Fields(form') = selectedLocation'[1].row
     /\ \A p \in SaveSlots :
          ReturnsOk(p)
            => /\ ~isDialogOpen' /\ isLoading'
               /\ \E f \in FetchSlots :
                    fetches[f].pc = "idle" /\ fetches'[f].pc = "locations"
     /\ \A p \in SaveSlots :
          (Returns(p) /\ lastSave'.pc = "failed")
            => isDialogOpen' = isDialogOpen /\ fetches' = fetches]_vars

\* an update save submitted from the dialog opened on the selected location
\* has just returned successfully: the dialog is closed and the list reloads
C11_Witness ==
  /\ lastSave.pc = "ok" /\ lastSave.kind = "update"
  /\ selectedLocation # <<>> /\ selectedLocation[1].id = lastSave.id
  /\ ~isDialogOpen /\ isLoading
  /\ \E f \in FetchSlots : fetches[f].pc = "locations"

\* C12: a click on Delete answered with Cancel sends no request and changes
\* neither the tables nor the loaded list; a delete request is sent only with
\* the answer OK, and a location row leaves the table only through such a
\* request.
C12_DeleteNeedsConfirmation ==
  [][/\ (confirmAnswer' = "declined" /\ confirmAnswer # "declined")
          => UNCHANGED <<dbVars, locations, deletes, fetches, saves>>
     /\ \A l \in LocIds :
          (l \in deletes' /\ l \notin deletes) => confirmAnswer' = "accepted"
     /\ \A l \in DOMAIN geofence_locations :
          l \notin DOMAIN geofence_locations'
            => l \in deletes /\ confirmAnswer = "accepted"]_vars

\* the user declined to delete a listed location: it is still stored and
\* listed, and no request is in flight
C12_Witness ==
  /\ confirmAnswer = "declined" /\ deletes = {}
  /\ \E l \in DOMAIN locations : l \in DOMAIN geofence_locations
  /\ \A f \in FetchSlots : fetches[f].pc = "idle"

\* C13: on every path other than /login and /register the page is rendered
\* only when auth loading has finished and a user is present; whenever
\* loading has finished without a user on such a path the visitor is sent to
\* /login; and once a user is present and loading has finished, each of these
\* paths renders its own page.
C13_AuthGuard ==
  /\ [](\A p \in ProtectedPaths :
          (path = p /\ Rendered.kind = "page") => ~authLoading /\ user # NoUser)
  /\ [][\A p \in ProtectedPaths :
          (path = p /\ ~authLoading' /\ user' = NoUser)
            => path' = "/login" /\ lastRedirect' = p]_vars
  /\ [](~authLoading /\ user = NoUser => path \notin ProtectedPaths)
  /\ [](\A p \in ProtectedPaths :
          (path = p /\ ~authLoading /\ user # NoUser) => Rendered = Page(PageOf(p)))

\* the scenario: sent from /employees to /login, then signed in and back at
\* /employees with the page rendered
C13_Witness ==
  /\ lastRedirect = "/employees"
  /\ path = "/employees"
  /\ user = "U1"
  /\ ~authLoading
  /\ Rendered = Page("EmployeesPage")

\* C14: when fetchLocations ends after its assignment queries, the list holds
\* every location of the table: one whose assignment query failed appears with
\* its row and no assigned_employees list, every other one with the employee
\* ids of its own assignment rows; a call whose locations query failed leaves
\* the list as it was.
C14_DegradesPerLocation ==
  [][\A f \in FetchSlots :
       /\ (fetches[f].pc = "assignments" /\ fetches'[f].pc = "idle")
            => /\ ~isLoading'
               /\ DOMAIN locations' = DOMAIN geofence_locations
               /\ \A l \in DOMAIN locations' :
                    locations'[l] =
                      IF l \in fetches'[f].failed
                        THEN Entry(geofence_locations[l])
                        ELSE [row |-> geofence_locations[l],
                              assigned_employees |->
                                EmployeesOf(employee_location_assignments, l),
                              hasAssigned |-> TRUE]
       /\ (fetches[f].pc = "locations" /\ fetches'[f].pc = "idle"
             /\ geofence_locations # NoRows)
            => locations' = locations /\ ~isLoading']_vars

\* the load ended with the query of location 1 failed and that of location 2
\* answered: 1 is listed without a list, 2 with its assigned employees
C14_Witness ==
  /\ fetches[1].pc = "idle" /\ fetches[1].failed = {1}
  /\ DOMAIN locations = {1, 2}
  /\ ~locations[1].hasAssigned
  /\ locations[2].hasAssigned
  /\ locations[2].assigned_employees = {"E1", "E2"}
  /\ EmployeesOf(employee_location_assignments, 1) # {}

\* whether two characters are the same letter in either case
SameLetter(c, d) == c = d \/ {c, d} = {"o", "O"}

\* t contains needle at some position, letters compared without case
ContainsIgnoringCase(t, needle) ==
  \E i \in 1..(Len(t) - Len(needle) + 1) :
    \A k \in 1..Len(needle) : SameLetter(t[i + k - 1], needle[k])

\* q without its leading and trailing spaces
Stripped(q) ==
  LET inner == {i \in 1..Len(q) : q[i] # " "}
  IN IF inner = {} THEN <<>>
     ELSE SubSeq(q, CHOOSE i \in inner : \A j \in inner : i <= j,
                    CHOOSE i \in inner : \A j \in inner : i >= j)

\* C15: the map renders exactly the locations whose name or address contains
\* the query, stripped of surrounding spaces, as a substring without regard
\* to case, in list order; an empty or all-space query renders the whole list.
C15_SearchFilter ==
  LET needle == Stripped(searchQuery)
      Wanted(location) == \/ ContainsIgnoringCase(location.name, needle)
                          \/ ContainsIgnoringCase(location.address, needle)
  IN filteredLocations =
       IF needle = <<>> THEN mapLocations ELSE SelectSeq(mapLocations, Wanted)

\* a mixed-case query with spaces around it keeps the second of two
\* locations, by its address, and drops the first
C15_Witness ==
  /\ searchQuery = <<" ", "O", "f">>
  /\ Len(mapLocations) = 2
  /\ filteredLocations = <<mapLocations[2]>>
  /\ mapLocations[2].name = <<"f", " ", "o">>
  /\ mapLocations[2].address = <<"O", "f">>

\* the document types signUp was given a file for
WithFile(c) == {t \in DocTypeSet : c.files[t] # NoFile}

\* C16 (as stated): once signUp has returned the identity layer's user, the
\* profiles row of that user holds a url for exactly the document types a
\* file was given for, and null for the others.
C16_UrlsForGivenFiles ==
  (signUpCall.pc = "idle" /\ signUpCall.result.data # NoUser)
    => LET id == signUpCall.result.data
       IN /\ id \in DOMAIN profiles
          /\ \A t \in DocTypeSet :
               profiles[id][t] # <<>> <=> t \in WithFile(signUpCall)

\* C17: when the identity layer has answered with a user and the profiles
\* upsert fails, signUp returns the identity layer's answer with no error,
\* the identity stays, and the form shows success and no error.
C17_ProfileFailureIgnored ==
  [][(signUpCall.pc = "upsert" /\ signUpCall'.pc = "idle"
        /\ signUpCall'.profileError)
       => /\ signUpCall'.result = signUpCall.auth
          /\ signUpCall'.result.error = "none"
          /\ signUpCall'.result.data \in identities'
          /\ identities' = identities
          /\ registerForm' = [isLoading |-> FALSE, error |-> "none",
                              success |-> TRUE]
          /\ navTimer']_vars

\* signUp has returned after a failed upsert: the account exists, no profile
\* row does, and the form shows success
C17_Witness ==
  /\ signUpCall.pc = "idle" /\ signUpCall.profileError
  /\ signUpCall.result = Answer("U1", "none")
  /\ "U1" \in identities /\ "U1" \notin DOMAIN profiles
  /\ registerForm.success /\ registerForm.error = "none"

\* the position of document type t in the upload order
OrderOf(t) == CHOOSE i \in 1..Len(DocTypes) : DocTypes[i] = t

\* C18: within a signUp call at most one upload is in flight; uploads start
\* in the order selfie, ktp, kk, cv; an upload is in flight only after the
\* identity layer has answered with a user; and the profiles upsert is in
\* flight only when every given file's upload has started and none is in
\* flight.
C18_UploadsSequential ==
  /\ [](Cardinality(signUpCall.uploading) <= 1)
  /\ [](\A i, j \in 1..Len(signUpCall.started) :
           i < j => OrderOf(signUpCall.started[i]) < OrderOf(signUpCall.started[j]))
  /\ [](signUpCall.uploading # {}
           => /\ signUpCall.auth.data # NoUser
              /\ signUpCall.auth.data \in identities)
  /\ [](signUpCall.pc = "upsert"
           => /\ signUpCall.uploading = {}
              /\ {signUpCall.started[i] : i \in 1..Len(signUpCall.started)}
                   = WithFile(signUpCall))
  /\ [][\A t \in DocTypeSet :
          (t \in signUpCall'.uploading /\ t \notin signUpCall.uploading)
            => /\ signUpCall'.uploading = {t}
               /\ signUpCall.pc \in {"auth", "uploads"}
               /\ \A k \in WithFile(signUpCall') :
                    OrderOf(k) < OrderOf(t)
                      => \E i \in 1..Len(signUpCall.started) :
                           signUpCall.started[i] = k]_vars

\* all four uploads have run, one after the other, and the upsert is in flight
C18_Witness ==
  /\ signUpCall.pc = "upsert"
  /\ signUpCall.started = DocTypes
  /\ signUpCall.urls["selfie"] # <<>> /\ signUpCall.urls["cv"] # <<>>

\* C19 (as stated): the bucket holds at most one object for each user id and
\* document type.
C19_OneObjectPerType ==
  \A u \in Users, t \in DocTypeSet :
    Cardinality({o \in bucket : o.path[2] = u /\ o.path[3] = t}) <= 1

\* C20 (as stated): a toggle of employee e in the open dialog removes e from
\* the form's assignedEmployees if it is there and adds it otherwise, starts no
\* backend request and changes no database row.
C20_ToggleIsPure ==
  [][\A e \in Employees :
       (isDialogOpen /\ isDialogOpen' /\ toggled' = Toggle(toggled, e))
         => /\ form'.assignedEmployees = Toggle(form.assignedEmployees, e)
            /\ UNCHANGED <<dbVars, saves, sideLoads, fetches>>]_vars

\* C21: a step that closes the dialog while a save is in flight leaves that
\* save in flight as it was (unless the step is the save's own return) and
\* changes no row; a save whose first request is still unanswered when the
\* dialog is closed goes on to return successfully with a refresh started,
\* and the row it wrote reaches the list.
C21_NoCancellation ==
  /\ [][\A p \in SaveSlots :
          (InFlight(p) /\ isDialogOpen /\ ~isDialogOpen')
            => \/ saves'[p] = saves[p] /\ UNCHANGED dbVars
               \/ ~InFlight(p)' /\ lastSave'.pc \in {"ok", "failed"}
                    /\ lastSave' # lastSave]_vars
  /\ \A p \in SaveSlots, d \in {HQ, Office} :
       (saves[p].pc = "update" /\ saves[p].data = d /\ ~isDialogOpen)
         ~> (/\ lastSave.pc = "ok" /\ lastSave.kind = "update"
             /\ geofence_locations[lastSave.id] = d
             /\ EmployeesOf(employee_location_assignments, lastSave.id)
                  = lastSave.assignedEmployees
             /\ \E f \in FetchSlots : fetches[f].pc = "locations")
  /\ \A p \in SaveSlots :
       (saves[p].pc = "update" /\ saves[p].data = Office /\ ~isDialogOpen)
         ~> (1 \in DOMAIN locations /\ locations[1].row = Office)

\* the dialog is closed and the save's update request is still unanswered
C21_Witness ==
  /\ ~isDialogOpen
  /\ \E p \in SaveSlots : saves[p].pc = "update" /\ saves[p].data = Office
  /\ geofence_locations[1] = HQ
  /\ 1 \in DOMAIN locations /\ locations[1].row = HQ

\* C22: when an update-save of the scenario location ends in failure, the
\* location's row and its assignment rows are what they were before the save
\* (the scenario has one save and no other writer, so "before" is the
\* initial database: the HQ row with the initial employees).
C22_FailedUpdateAtomic ==
  (lastSave.pc = "failed" /\ lastSave.kind = "update")
    => /\ geofence_locations[1] = HQ
       /\ EmployeesOf(employee_location_assignments, 1) = InitialEmployees

C24_UntouchedSelectionPreserved ==
  (lastSave.pc = "ok" /\ lastSave.kind = "update")
    => EmployeesOf(employee_location_assignments, 1) = InitialEmployees

\* C25: with every request answered successfully, whenever no save, delete or
\* fetchLocations call of the page is in flight, the list holds exactly the
\* ids of the geofence_locations rows and, for each, the employees assigned to
\* it in the database.
C25_ListConverges ==
  (/\ \A p \in SaveSlots : ~InFlight(p)
   /\ \A f \in DOMAIN fetches : fetches[f].pc = "idle"
   /\ deletes = {})
    => /\ DOMAIN locations = DOMAIN geofence_locations
       /\ \A l \in DOMAIN locations :
            locations[l].assigned_employees
              = EmployeesOf(employee_location_assignments, l)

\* C30: isLoading is TRUE in every state in which a fetchLocations call is in
\* flight.
C30_LoadingTracksFetches ==
  (\E f \in DOMAIN fetches : fetches[f].pc # "idle") => isLoading

\* C26: when the list has been refreshed and no save, delete or fetchLocations
\* call is in flight, selectedLocation is null or carries the id of a
\* location of the list.
C26_SelectedLocationInList ==
  (/\ \A p \in SaveSlots : ~InFlight(p)
   /\ \A f \in DOMAIN fetches : fetches[f].pc = "idle"
   /\ deletes = {})
    => \/ selectedLocation = <<>>
       \/ selectedLocation[1].id \in DOMAIN locations

\* C27: a toggle of employee e in the open dialog whose fields hold the typed
\* Office values, with the reset effect it triggers, leaves name, address,
\* latitude, longitude and radius of the form as they were, and the form's
\* assignedEmployees then holds e exactly if it did not before.
C27_ToggleKeepsTypedFields ==
  [][\A e \in Employees :
       (/\ isDialogOpen /\ isDialogOpen' /\ toggled' = Toggle(toggled, e)
        /\ Fields(form) = Office)
         => /\ Fields(form') = Fields(form)
            /\ (e \in form'.assignedEmployees) = (e \notin form.assignedEmployees)]_vars

\* C28: no step of an employee-side save changes a row of another employee;
\* and when the save of employee e with selection S ends, the rows of e are
\* either exactly one per location of S (it succeeded) or the rows e had
\* before the save (it failed).
C28_EmployeeSideReplace ==
  /\ [][empSave.pc # "idle"
          => \A pr \in Employees \X LocIds :
               pr[1] # empSave.empId
                 => employee_location_assignments'[pr]
                      = employee_location_assignments[pr]]_vars
  /\ [][(empSave.pc # "idle" /\ empSave'.pc = "idle")
          => \/ \A l \in LocIds :
                  employee_location_assignments'[<<empSave.empId, l>>]
                    = IF l \in empSave.selectedLocations THEN 1 ELSE 0
             \/ \A l \in LocIds :
                  employee_location_assignments'[<<empSave.empId, l>>]
                    = IF l \in InitialLocations(empSave.empId) THEN 1 ELSE 0]_vars

\* C29: when the identity layer has answered a signUp call with no user, or
\* the call carries no metadata, the call returns at once with the identity
\* layer's answer, having started no upload and changed neither the bucket
\* nor profiles; and every step that stores a document or a profiles row
\* stores it for the user the identity layer returned to the call in flight,
\* a call with metadata.
C29_NoSideEffectsWithoutIdentity ==
  /\ [][(/\ signUpCall.pc = "auth" /\ signUpCall'.pc # "auth"
          /\ (signUpCall'.auth.data = NoUser \/ ~signUpCall.metadata))
         => /\ signUpCall'.pc = "idle"
            /\ signUpCall'.result = signUpCall'.auth
            /\ signUpCall'.started = <<>>
            /\ UNCHANGED <<bucket, profiles>>]_vars
  /\ [][(bucket' # bucket \/ profiles' # profiles)
         => /\ signUpCall.pc \in {"uploads", "upsert"}
            /\ signUpCall.metadata
            /\ signUpCall.auth.error = "none"
            /\ signUpCall.auth.data \in identities
            /\ \A o \in bucket' \ bucket : o.path[2] = signUpCall.auth.data
            /\ DOMAIN profiles' \ DOMAIN profiles
                 \subseteq {signUpCall.auth.data}]_vars
  /\ [](/\ \A o \in bucket : o.path[2] \in identities
        /\ DOMAIN profiles \subseteq identities)

\* a registration has failed at the identity layer and a call without
\* metadata, with a selfie, has returned the user: nothing is stored
C29_Witness ==
  /\ registerForm.error = "auth"
  /\ signUpCall.pc = "idle" /\ ~signUpCall.metadata
  /\ signUpCall.files["selfie"] # NoFile
  /\ signUpCall.result = Answer("U1", "none")
  /\ bucket = {} /\ DOMAIN profiles = {}

====
